---------------------------- MODULE Spec2Model ----------------------------
(***************************************************************************)
(* A model of felix.cpp: the content-addressed, append-only fact store     *)
(* (fields, f_values, records, facts, current_facts, meta) behind the      *)
(* felixctl command surface.                                               *)
(*                                                                         *)
(* Byte strings (std::string, std::vector<uint8_t>) are sequences of runs  *)
(* [b |-> byte, n |-> repeat count] in which adjacent runs hold different  *)
(* bytes, so that a string of 257 bytes or of 1 MiB + 1 bytes is a value   *)
(* the checker can hold and the program's size limits keep their real      *)
(* numbers.  The argument vector of a command and the item vector of an    *)
(* ingest are held the same way, as runs [x |-> element, n |-> count].     *)
(*                                                                         *)
(* SHA-256 is taken to be collision free: a digest is represented by the   *)
(* byte string it was computed from.                                       *)
(***************************************************************************)
EXTENDS Integers, Sequences, FiniteSets, TLC

(***************************************************************************)
(* Byte strings                                                            *)
(***************************************************************************)

\* a run of n copies of byte b
Run(b, n) == [b |-> b, n |-> n]

RECURSIVE Norm(_)
\* merges adjacent runs of the same byte and drops empty runs
Norm(s) ==
  IF s = <<>> THEN <<>>
  ELSE IF Head(s).n = 0 THEN Norm(Tail(s))
  ELSE LET r == Norm(Tail(s)) IN
       IF r # <<>> /\ Head(r).b = Head(s).b
       THEN <<Run(Head(s).b, Head(s).n + Head(r).n)>> \o Tail(r)
       ELSE <<Head(s)>> \o r

\* the string made of the bytes of the tuple bs
Str(bs) == Norm([i \in 1..Len(bs) |-> Run(bs[i], 1)])

RECURSIVE Size(_)
\* std::string::size()
Size(s) == IF s = <<>> THEN 0 ELSE Head(s).n + Size(Tail(s))

\* s1 + s2
Cat(s1, s2) ==
  IF s1 = <<>> THEN s2
  ELSE IF s2 = <<>> THEN s1
  ELSE IF s1[Len(s1)].b # s2[1].b THEN s1 \o s2
  ELSE SubSeq(s1, 1, Len(s1) - 1)
       \o <<Run(s2[1].b, s1[Len(s1)].n + s2[1].n)>> \o Tail(s2)

RECURSIVE Bytes(_)
\* the bytes of a (short) string, one element per byte
Bytes(s) ==
  IF s = <<>> THEN <<>>
  ELSE [i \in 1..Head(s).n |-> Head(s).b] \o Bytes(Tail(s))

RECURSIVE CStr(_)
\* std::string::c_str() read as a NUL-terminated string (sqlite3_bind_text
\* with length -1): the bytes before the first 0 byte
CStr(s) ==
  IF s = <<>> \/ Head(s).b = 0 THEN <<>>
  ELSE <<Head(s)>> \o CStr(Tail(s))

(***************************************************************************)
(* Primitives                                                              *)
(***************************************************************************)

\* std::isspace in the "C" locale
isspace(c) == c \in {9, 10, 11, 12, 13, 32}

RECURSIVE DropLeading(_)
DropLeading(s) ==
  IF s # <<>> /\ isspace(Head(s).b) THEN DropLeading(Tail(s)) ELSE s

RECURSIVE DropTrailing(_)
DropTrailing(s) ==
  IF s # <<>> /\ isspace(s[Len(s)].b)
  THEN DropTrailing(SubSeq(s, 1, Len(s) - 1)) ELSE s

trim_copy(sv) == DropTrailing(DropLeading(sv))

RECURSIVE WellFormed(_)
\* well-formed UTF-8 over the alphabet of the model: ASCII, U+0301
\* (0xCC 0x81) and U+00E9 (0xC3 0xA9)
WellFormed(bs) ==
  IF bs = <<>> THEN TRUE
  ELSE IF bs[1] < 128 THEN WellFormed(Tail(bs))
  ELSE IF Len(bs) >= 2 /\ <<bs[1], bs[2]>> \in {<<204, 129>>, <<195, 169>>}
       THEN WellFormed(SubSeq(bs, 3, Len(bs)))
  ELSE FALSE

\* require_utf8 returns normally
require_utf8(s) ==
  IF \A i \in 1..Len(s) : s[i].b < 128 THEN TRUE ELSE WellFormed(Bytes(s))

RECURSIVE Compose(_)
\* NFC over the alphabet of the model: e followed by U+0301 composes to
\* U+00E9, everything else is already in NFC
Compose(s) ==
  IF Len(s) < 3 THEN s
  ELSE IF s[1].b = 101 /\ s[2] = Run(204, 1) /\ s[3] = Run(129, 1)
       THEN <<Run(101, s[1].n - 1), Run(195, 1), Run(169, 1)>>
            \o Compose(SubSeq(s, 4, Len(s)))
  ELSE <<s[1]>> \o Compose(Tail(s))

nfc_normalize_utf8(utf8_in) ==
  IF \A i \in 1..Len(utf8_in) : utf8_in[i].b # 204 THEN utf8_in
  ELSE Norm(Compose(utf8_in))

\* the digest of data, represented by data itself (collision-free SHA-256)
sha256_bytes(data) == <<"sha256", data>>

(***************************************************************************)
(* Type system                                                             *)
(***************************************************************************)

LogicalType ==
  {"Null", "Bool", "Int", "Float", "Text", "Bytes", "Uuid", "JsonReserved"}

TagMapVersion == {"LegacyV02", "FelixV03"}
HashFormatVersion == {"LegacyNoSep", "FelixV03Sep"}

\* type_tag_byte returns (does not throw)
type_tag_known(v, t) == v = "FelixV03" \/ t \notin {"Bytes", "Uuid"}

type_tag_byte(v, t) ==
  IF v = "LegacyV02"
  THEN CASE t = "Text" -> 1 [] t = "Int" -> 2 [] t = "Float" -> 3
         [] t = "Bool" -> 4 [] t = "Null" -> 5 [] t = "JsonReserved" -> 6
  ELSE CASE t = "Null" -> 0 [] t = "Bool" -> 1 [] t = "Int" -> 2
         [] t = "Float" -> 3 [] t = "Text" -> 4 [] t = "Bytes" -> 5
         [] t = "Uuid" -> 6 [] t = "JsonReserved" -> 7

\* sha256_typed had it left the tag byte out of the hashed buffer
sha256_untyped(tagmap, hfmt, logical_type, canon_bytes) ==
  sha256_bytes(Cat(IF hfmt = "FelixV03Sep" THEN <<Run(0, 1)>> ELSE <<>>,
                   canon_bytes))

sha256_typed(tagmap, hfmt, logical_type, canon_bytes) ==
  sha256_bytes(Cat(<<Run(type_tag_byte(tagmap, logical_type), 1)>>,
                   Cat(IF hfmt = "FelixV03Sep" THEN <<Run(0, 1)>> ELSE <<>>,
                       canon_bytes)))

\* logical_type_from_tag: the logical type, or "error" where the code throws
logical_type_from_tag(v, tag) ==
  IF v = "LegacyV02"
  THEN CASE tag = 1 -> "Text" [] tag = 2 -> "Int" [] tag = 3 -> "Float"
         [] tag = 4 -> "Bool" [] tag = 5 -> "Null" [] tag = 6 -> "JsonReserved"
         [] OTHER -> "error"
  ELSE CASE tag = 0 -> "Null" [] tag = 1 -> "Bool" [] tag = 2 -> "Int"
         [] tag = 3 -> "Float" [] tag = 4 -> "Text" [] tag = 5 -> "Bytes"
         [] tag = 6 -> "Uuid" [] tag = 7 -> "JsonReserved"
         [] OTHER -> "error"

\* type_to_string
type_to_string(t) ==
  CASE t = "Null" -> "null" [] t = "Bool" -> "bool" [] t = "Int" -> "int"
    [] t = "Float" -> "float" [] t = "Text" -> "text" [] t = "Bytes" -> "bytes"
    [] t = "Uuid" -> "uuid" [] t = "JsonReserved" -> "json"

\* the type names of logical_type_from_string
TypeNames ==
  [null |-> "Null", bool |-> "Bool", int |-> "Int", float |-> "Float",
   text |-> "Text", bytes |-> "Bytes", uuid |-> "Uuid", json |-> "JsonReserved"]

\* parse_type: the logical type, or "error" where the code throws
parse_type(s) ==
  IF s \notin DOMAIN TypeNames \/ s = "json" THEN "error" ELSE TypeNames[s]

(***************************************************************************)
(* Canonicalization                                                        *)
(***************************************************************************)

\* struct CanonValue; the member the type does not use is empty
CanonValue(t, text, blob) ==
  [logical_type |-> t, canon_text |-> text, canon_blob |-> blob]

\* a canonicalization result: the value, or the error thrown
Canon(cv) == [ok |-> TRUE, err |-> "", cv |-> cv]
CanonError(e) == [ok |-> FALSE, err |-> e, cv |-> CanonValue("Null", <<>>, <<>>)]

\* the literals "null", "true", "false" and "field"
NullText == Str(<<110, 117, 108, 108>>)
TrueText == Str(<<116, 114, 117, 101>>)
FalseText == Str(<<102, 97, 108, 115, 101>>)
FieldPrefix == Str(<<102, 105, 101, 108, 100>>)

IsDigit(c) == c \in 48..57

RECURSIVE DigitCount(_)
\* the length of the longest prefix of bs made of decimal digits
DigitCount(bs) ==
  IF bs # <<>> /\ IsDigit(bs[1]) THEN 1 + DigitCount(Tail(bs)) ELSE 0

RECURSIVE StripZeros(_)
StripZeros(ds) ==
  IF Len(ds) > 1 /\ ds[1] = 48 THEN StripZeros(Tail(ds)) ELSE ds

RECURSIVE LexLeq(_, _)
\* a <= b for digit strings of equal length
LexLeq(a, b) ==
  IF a = <<>> THEN TRUE
  ELSE IF a[1] # b[1] THEN a[1] < b[1]
  ELSE LexLeq(Tail(a), Tail(b))

\* the digits of 2^63 - 1 and of 2^63
Int64MaxDigits == <<57, 50, 50, 51, 51, 55, 50, 48, 51, 54, 56, 53, 52, 55, 55, 53, 56, 48, 55>>
Int64MinDigits == <<57, 50, 50, 51, 51, 55, 50, 48, 51, 54, 56, 53, 52, 55, 55, 53, 56, 48, 56>>

\* the magnitude ds, stripped of leading zeros, fits long long
FitsInt64(neg, ds) ==
  Len(ds) < Len(Int64MaxDigits)
  \/ (Len(ds) = Len(Int64MaxDigits)
      /\ LexLeq(ds, IF neg THEN Int64MinDigits ELSE Int64MaxDigits))

\* what std::stoll and std::to_string give for a sign (43, 45, or 0 for none)
\* and the digits ds that follow it, k of them before leading zeros were
\* stripped
stoll_digits(sign, k, ds) ==
  IF k = 0 \/ ~FitsInt64(sign = 45, ds)
  THEN [ok |-> FALSE, idx |-> 0, text |-> <<>>]
  ELSE [ok |-> TRUE,
        idx |-> k + (IF sign = 0 THEN 0 ELSE 1),
        text |-> IF sign = 45 /\ ds # <<48>> THEN <<45>> \o ds ELSE ds]

\* std::stoll on a sign and the bytes rest that follow it
stoll_signed(sign, rest) ==
  stoll_digits(sign, DigitCount(rest),
               StripZeros(SubSeq(rest, 1, DigitCount(rest))))

\* std::stoll(s, &idx, 10) followed by std::to_string, on the bytes bs of a
\* trimmed, non-empty string: [ok, idx, text]
stoll(bs) ==
  IF bs[1] \in {43, 45} THEN stoll_signed(bs[1], Tail(bs))
  ELSE stoll_signed(0, bs)

\* the end of the Int branch of canonicalize_typed_value: r is what std::stoll
\* gave on the trimmed string, whose size is n
canonicalize_int(t, n, r) ==
  IF ~r.ok \/ r.idx # n THEN CanonError("BadInt")
  ELSE Canon(CanonValue(t, Str(r.text), <<>>))

\* the Bool and Int branches of canonicalize_typed_value on the trimmed
\* string s
canonicalize_trimmed(t, s) ==
  IF t = "Bool"
  THEN IF s \in {TrueText, FalseText} THEN Canon(CanonValue(t, s, <<>>))
       ELSE CanonError("BadBool")
  ELSE IF s = <<>> THEN CanonError("BadInt")
  ELSE canonicalize_int(t, Size(s), stoll(Bytes(s)))

\* the bytes base64_decode_strict skips before decoding
Base64Skipped == {32, 9, 13, 10}

\* conv_ascii2bin of EVP_DecodeBlock: the six bits of a base64 symbol, 0 for
\* the padding symbol '=', 255 for a byte that is no symbol
conv_ascii2bin(c) ==
  CASE c \in 65..90 -> c - 65
    [] c \in 97..122 -> c - 71
    [] c \in 48..57 -> c + 4
    [] c = 43 -> 62
    [] c = 47 -> 63
    [] c = 61 -> 0
    [] OTHER -> 255

\* the 24 bits of the quad of symbols that starts at s[i]
QuadBits(s, i) ==
  conv_ascii2bin(s[i]) * 262144 + conv_ascii2bin(s[i + 1]) * 4096
  + conv_ascii2bin(s[i + 2]) * 64 + conv_ascii2bin(s[i + 3])

\* EVP_DecodeBlock on the bytes s, free of white space: the count it returns
\* (-1 for an error) and the bytes it wrote
EVP_DecodeBlock(s) ==
  IF Len(s) % 4 # 0 \/ \E i \in 1..Len(s) : conv_ascii2bin(s[i]) = 255
  THEN [n |-> -1, out |-> <<>>]
  ELSE [n |-> 3 * (Len(s) \div 4),
        out |-> [k \in 1..(3 * (Len(s) \div 4)) |->
                   (QuadBits(s, 4 * ((k - 1) \div 3) + 1)
                      \div (CASE (k - 1) % 3 = 0 -> 65536
                              [] (k - 1) % 3 = 1 -> 256
                              [] (k - 1) % 3 = 2 -> 1)) % 256]]

\* the number of '=' among the last two bytes of s, as base64_decode_strict
\* counts them
PadCount(s) ==
  (IF Len(s) >= 1 /\ s[Len(s)] = 61 THEN 1 ELSE 0)
  + (IF Len(s) >= 2 /\ s[Len(s) - 1] = 61 THEN 1 ELSE 0)

\* the end of base64_decode_strict: r is what EVP_DecodeBlock gave on s
base64_decoded(s, r) ==
  IF r.n < 0 THEN [ok |-> FALSE, blob |-> <<>>]
  ELSE IF r.n < PadCount(s) THEN [ok |-> FALSE, blob |-> <<>>]
  ELSE [ok |-> TRUE, blob |-> Str(SubSeq(r.out, 1, r.n - PadCount(s)))]

\* base64_decode_strict after the white space was removed, which left s
base64_decode_stripped(s) ==
  IF s = <<>> THEN [ok |-> TRUE, blob |-> <<>>]
  ELSE base64_decoded(s, EVP_DecodeBlock(s))

\* base64_decode_strict: [ok, blob]
base64_decode_strict(b64) ==
  base64_decode_stripped(SelectSeq(Bytes(b64), LAMBDA c : c \notin Base64Skipped))

\* is_hex of canonicalize_uuid
is_hex(c) == c \in 48..57 \/ c \in 97..102 \/ c \in 65..70

\* std::tolower in the "C" locale
tolower(c) == IF c \in 65..90 THEN c + 32 ELSE c

\* the positions (from 1) where canonicalize_uuid wants a '-'
UuidDashes == {9, 14, 19, 24}

\* canonicalize_uuid on the bytes bs of the trimmed string: [ok, text]
canonicalize_uuid_trimmed(bs) ==
  IF Len(bs) # 36 THEN [ok |-> FALSE, text |-> <<>>]
  ELSE IF \E i \in 1..36 : IF i \in UuidDashes THEN bs[i] # 45 ELSE ~is_hex(bs[i])
  THEN [ok |-> FALSE, text |-> <<>>]
  ELSE [ok |-> TRUE,
        text |-> Str([i \in 1..36 |-> IF i \in UuidDashes THEN bs[i]
                                      ELSE tolower(bs[i])])]

\* canonicalize_uuid: [ok, text]
canonicalize_uuid(in) ==
  IF Size(trim_copy(in)) # 36 THEN [ok |-> FALSE, text |-> <<>>]
  ELSE canonicalize_uuid_trimmed(Bytes(trim_copy(in)))

\* the literals "inf", "+inf", "-inf", "nan", "NaN" and "NAN"
InfText == Str(<<105, 110, 102>>)
PlusInfText == Str(<<43, 105, 110, 102>>)
MinusInfText == Str(<<45, 105, 110, 102>>)
NanTexts ==
  {Str(<<110, 97, 110>>), Str(<<78, 97, 78>>), Str(<<78, 65, 78>>)}

\* the digits a double holds exactly and nlohmann's to_chars prints without
\* an exponent
MaxPlainFloatDigits == 15

\* std::strtod followed by canonicalize_float64 for a decimal integer of at
\* most MaxPlainFloatDigits digits, given as what std::stoll makes of it: the
\* double is the integer, to_chars prints it with ".0" appended, which the
\* trimming of the mantissa removes; 0 and -0 give "0".  For a string that is
\* no such integer r.ok is false or r.idx short of n, and the model has nothing
\* to say.
canonicalize_float_integer(t, n, r) ==
  CASE r.ok /\ r.idx = n /\ Len(r.text) <= MaxPlainFloatDigits ->
         Canon(CanonValue(t, Str(r.text), <<>>))

\* the Float branch of canonicalize_typed_value on the trimmed string s
canonicalize_float(t, s) ==
  IF s \in {InfText, PlusInfText} THEN Canon(CanonValue(t, InfText, <<>>))
  ELSE IF s = MinusInfText THEN Canon(CanonValue(t, MinusInfText, <<>>))
  ELSE IF s \in NanTexts THEN CanonError("BadFloat")
  ELSE IF s = <<>> THEN CanonError("BadFloat")
  ELSE canonicalize_float_integer(t, Size(s), stoll(Bytes(s)))

\* the end of the Uuid branch of canonicalize_typed_value
canonicalize_uuid_value(t, r) ==
  IF r.ok THEN Canon(CanonValue(t, r.text, <<>>)) ELSE CanonError("BadUuid")

\* the end of the Bytes branch of canonicalize_typed_value
canonicalize_bytes_value(t, r) ==
  IF r.ok THEN Canon(CanonValue(t, <<>>, r.blob)) ELSE CanonError("BadBase64")

\* canonicalize_typed_value(LogicalType, std::string_view): the raw-text
\* entry point
canonicalize_typed_value(t, raw_value_text) ==
  CASE t = "Null" -> Canon(CanonValue(t, NullText, <<>>))
    [] t \in {"Bool", "Int"} -> canonicalize_trimmed(t, trim_copy(raw_value_text))
    [] t = "Float" -> canonicalize_float(t, trim_copy(raw_value_text))
    [] t = "Text" ->
         IF ~require_utf8(raw_value_text) THEN CanonError("BadEncoding")
         ELSE Canon(CanonValue(t, nfc_normalize_utf8(trim_copy(raw_value_text)), <<>>))
    [] t = "Uuid" ->
         IF ~require_utf8(raw_value_text) THEN CanonError("BadEncoding")
         ELSE canonicalize_uuid_value(t, canonicalize_uuid(raw_value_text))
    [] t = "Bytes" ->
         IF ~require_utf8(raw_value_text) THEN CanonError("BadEncoding")
         ELSE canonicalize_bytes_value(t, base64_decode_strict(raw_value_text))
    [] t = "JsonReserved" -> CanonError("ReservedType")

\* a parsed JSON scalar (nlohmann::json): is names its value_t; a boolean
\* holds b, a string holds the bytes s, a number holds the literal it was
\* parsed from as its sign and its text: for number_integer and
\* number_unsigned the decimal digits of the magnitude without leading
\* zeros, for number_float the whole literal
JsonNull == [is |-> "null"]
JsonBoolean(b) == [is |-> "boolean", b |-> b]
JsonString(s) == [is |-> "string", s |-> s]
JsonNumber(is, neg, text) == [is |-> is, neg |-> neg, text |-> text]

\* the digits of 2^64 - 1 and of 2^64
Uint64MaxDigits == <<49, 56, 52, 52, 54, 55, 52, 52, 48, 55, 51, 55, 48, 57, 53, 53, 49, 54, 49, 53>>
TwoPow64Digits == <<49, 56, 52, 52, 54, 55, 52, 52, 48, 55, 51, 55, 48, 57, 53, 53, 49, 54, 49, 54>>

\* the magnitude ds, stripped of leading zeros, fits uint64_t
FitsUint64(ds) ==
  Len(ds) < Len(Uint64MaxDigits)
  \/ (Len(ds) = Len(Uint64MaxDigits) /\ LexLeq(ds, Uint64MaxDigits))

\* json::parse on the literal of a number without fraction or exponent, an
\* optional '-' and the digits ds: number_unsigned when it has no sign and
\* fits uint64_t, number_integer when it has a sign and fits int64_t,
\* number_float otherwise
json_parse_integer(neg, ds) ==
  IF ~neg /\ FitsUint64(StripZeros(ds))
  THEN JsonNumber("number_unsigned", FALSE, StripZeros(ds))
  ELSE IF neg /\ FitsInt64(TRUE, StripZeros(ds))
  THEN JsonNumber("number_integer", StripZeros(ds) # <<48>>, StripZeros(ds))
  ELSE JsonNumber("number_float", neg, (IF neg THEN <<45>> ELSE <<>>) \o ds)

\* ds with zeros in front, n digits in all
PadZeros(ds, n) == [i \in 1..(n - Len(ds)) |-> 48] \o ds

RECURSIVE SubDigits(_, _, _)
\* a - b - borrow for digit strings of equal length, modulo 10^Len(a)
SubDigits(a, b, borrow) ==
  IF a = <<>> THEN <<>>
  ELSE Append(SubDigits(SubSeq(a, 1, Len(a) - 1), SubSeq(b, 1, Len(b) - 1),
                        IF a[Len(a)] - b[Len(b)] - borrow < 0 THEN 1 ELSE 0),
              48 + ((a[Len(a)] - b[Len(b)] - borrow + 10) % 10))

\* v.get<int64_t>() followed by std::to_string, on a number_integer or a
\* number_unsigned: a number_unsigned above 2^63 - 1 is converted to int64_t
\* modulo 2^64
get_int64_text(v) ==
  IF v.is = "number_integer" THEN (IF v.neg THEN <<45>> ELSE <<>>) \o v.text
  ELSE IF FitsInt64(FALSE, v.text) THEN v.text
  ELSE <<45>> \o StripZeros(SubDigits(TwoPow64Digits,
                                      PadZeros(v.text, Len(TwoPow64Digits)), 0))

\* the Float branch of the structured entry point for a number_integer or a
\* number_unsigned of at most MaxPlainFloatDigits digits: v.get<double>() is
\* the integer, which canonicalize_float64 prints as canonicalize_float_integer
\* says.  For a number_float the model has nothing to say.
canonicalize_float_json(t, v) ==
  CASE v.is \in {"number_integer", "number_unsigned"} ->
         canonicalize_float_integer(t, Len(v.text),
                                    [ok |-> TRUE, idx |-> Len(v.text),
                                     text |-> get_int64_text(v)])

\* the branches of the structured entry point that read a JSON string
canonicalize_string_json(t, raw) ==
  CASE t = "Text" ->
         IF ~require_utf8(raw) THEN CanonError("BadEncoding")
         ELSE Canon(CanonValue(t, nfc_normalize_utf8(trim_copy(raw)), <<>>))
    [] t = "Uuid" ->
         IF ~require_utf8(raw) THEN CanonError("BadEncoding")
         ELSE canonicalize_uuid_value(t, canonicalize_uuid(raw))
    [] t = "Bytes" ->
         IF ~require_utf8(raw) THEN CanonError("BadEncoding")
         ELSE canonicalize_bytes_value(t, base64_decode_strict(raw))

\* canonicalize_typed_value(LogicalType, const json&): the structured entry
\* point
canonicalize_typed_value_json(t, v) ==
  CASE t = "Null" -> Canon(CanonValue(t, NullText, <<>>))
    [] t = "Bool" ->
         IF v.is # "boolean" THEN CanonError("BadBool")
         ELSE Canon(CanonValue(t, IF v.b THEN TrueText ELSE FalseText, <<>>))
    [] t = "Int" ->
         IF v.is \notin {"number_integer", "number_unsigned"}
         THEN CanonError("BadInt")
         ELSE Canon(CanonValue(t, Str(get_int64_text(v)), <<>>))
    [] t = "Float" ->
         IF v.is \notin {"number_integer", "number_unsigned", "number_float"}
         THEN CanonError("BadFloat")
         ELSE canonicalize_float_json(t, v)
    [] t = "Text" ->
         IF v.is # "string" THEN CanonError("BadText")
         ELSE canonicalize_string_json(t, v.s)
    [] t = "Uuid" ->
         IF v.is # "string" THEN CanonError("BadUuid")
         ELSE canonicalize_string_json(t, v.s)
    [] t = "Bytes" ->
         IF v.is # "string" THEN CanonError("BadBase64")
         ELSE canonicalize_string_json(t, v.s)
    [] t = "JsonReserved" -> CanonError("ReservedType")

\* canonicalize_field_hash; the prefix literal "field\0" initialises a
\* std::string from a C string, so the prefix is the five bytes "field"
canonicalize_field_hash(field_name) ==
  sha256_bytes(Cat(FieldPrefix, nfc_normalize_utf8(trim_copy(field_name))))

(***************************************************************************)
(* The database: the committed content of the SQLite file.  Each table is  *)
(* the set of its rows; schema says whether the five data tables exist.    *)
(***************************************************************************)

EmptyDb ==
  [schema |-> FALSE, meta |-> {}, fields |-> {}, f_values |-> {},
   records |-> {}, facts |-> {}, current_facts |-> {}]

\* a nullable column, a std::optional: <<>> when empty, <<x>> when it holds x
None == <<>>
Some(x) == <<x>>

\* the result of a storage call: the database it leaves, what it returns,
\* or the error it throws
Done(d, ret) == [ok |-> TRUE, err |-> "", db |-> d, ret |-> ret]
Throw(d, e) == [ok |-> FALSE, err |-> e, db |-> d, ret |-> 0]

Max(S) == CHOOSE x \in S : \A y \in S : y <= x

\* the rowid SQLite gives a new row of an INTEGER PRIMARY KEY table
NextRowId(ids) == IF ids = {} THEN 1 ELSE Max(ids) + 1

\* FelixSqlite::meta_get
meta_get(d, k) ==
  IF \E r \in d.meta : r.k = k
  THEN Some((CHOOSE r \in d.meta : r.k = k).v) ELSE None

\* FelixSqlite::meta_set
meta_set(d, k, v) ==
  [d EXCEPT !.meta = {r \in @ : r.k # k} \cup {[k |-> k, v |-> v]}]

\* load_format_defaults had it taken an absent key for the v0.3 format
load_format_defaults_v03(d) ==
  [tagmap_ |-> IF meta_get(d, "tag_map") \in {None, Some("felix_v03")}
               THEN "FelixV03" ELSE "LegacyV02",
   hashfmt_ |-> IF meta_get(d, "hash_format") \in {None, Some("felix_v03_sep")}
                THEN "FelixV03Sep" ELSE "LegacyNoSep"]

\* FelixSqlite::load_format_defaults: the members tagmap_ and hashfmt_
load_format_defaults(d) ==
  LET hv == meta_get(d, "hash_format")
      tv == meta_get(d, "tag_map")
  IN IF hv = None \/ tv = None
     THEN [tagmap_ |-> "LegacyV02", hashfmt_ |-> "LegacyNoSep"]
     ELSE [tagmap_ |-> IF tv[1] = "felix_v03" THEN "FelixV03" ELSE "LegacyV02",
           hashfmt_ |-> IF hv[1] = "felix_v03_sep" THEN "FelixV03Sep"
                        ELSE "LegacyNoSep"]

\* FelixSqlite::FelixSqlite: the members of the store just opened on d
\* (ensure_meta_table creates the meta table, which the model always has)
FelixSqlite(d) ==
  [tagmap_ |-> load_format_defaults(d).tagmap_,
   hashfmt_ |-> load_format_defaults(d).hashfmt_,
   null_value_id_ |-> 0]

\* ensure_record had its statement been INSERT OR REPLACE
ensure_record_or_replace(d, record_id, created_ts_ms) ==
  Done([d EXCEPT !.records =
          {r \in @ : r.record_id # record_id}
            \cup {[record_id |-> record_id, created_ts |-> created_ts_ms]}], 0)

\* FelixSqlite::ensure_record
ensure_record(d, record_id, created_ts_ms) ==
  IF \E r \in d.records : r.record_id = record_id THEN Done(d, 0)
  ELSE Done([d EXCEPT !.records =
               @ \cup {[record_id |-> record_id, created_ts |-> created_ts_ms]}],
            0)

\* the limits of get_or_create_field and get_or_create_value
MaxFieldNameBytes == 256
MaxTextBytes == 1048576
MaxBlobBytes == 4194304

\* get_or_create_field had it looked the name up without inserting it
get_or_create_field_lookup(d, field_name) ==
  IF \E r \in d.fields : r.hash = canonicalize_field_hash(field_name)
  THEN Done(d, (CHOOSE r \in d.fields :
                  r.hash = canonicalize_field_hash(field_name)).field_id)
  ELSE Throw(d, "UnknownField")

\* the SELECT of get_or_create_field
select_field_id(d, h) ==
  Done(d, (CHOOSE r \in d.fields : r.hash = h).field_id)

\* the INSERT of get_or_create_field had fields.hash not been UNIQUE
insert_field_always(d, canon, h) ==
  [d EXCEPT !.fields = @ \cup
     {[field_id |-> NextRowId({r.field_id : r \in d.fields}),
       name_canon |-> CStr(canon), hash |-> h]}]

\* the INSERT OR IGNORE of get_or_create_field
insert_field_or_ignore(d, canon, h) ==
  IF \E r \in d.fields : r.hash = h THEN d
  ELSE [d EXCEPT !.fields = @ \cup
          {[field_id |-> NextRowId({r.field_id : r \in d.fields}),
            name_canon |-> CStr(canon), hash |-> h]}]

\* get_or_create_field once it has canon, the canonical name
intern_field(d, canon) ==
  select_field_id(insert_field_or_ignore(d, canon, canonicalize_field_hash(canon)),
                  canonicalize_field_hash(canon))

\* FelixSqlite::get_or_create_field
get_or_create_field(d, field_name) ==
  IF Size(field_name) > MaxFieldNameBytes THEN Throw(d, "FieldTooLong")
  ELSE IF ~require_utf8(field_name) THEN Throw(d, "BadEncoding")
  ELSE intern_field(d, nfc_normalize_utf8(trim_copy(field_name)))

\* cv.hash of get_or_create_value on a store whose members are st
value_hash(st, cv) ==
  sha256_typed(st.tagmap_, st.hashfmt_, cv.logical_type,
               IF cv.logical_type = "Bytes" THEN cv.canon_blob ELSE cv.canon_text)

\* the row the INSERT of get_or_create_value binds
value_row(d, st, cv) ==
  [value_id |-> NextRowId({r.value_id : r \in d.f_values}),
   type_tag |-> type_tag_byte(st.tagmap_, cv.logical_type),
   canon_text |-> IF cv.logical_type = "Bytes" THEN None
                  ELSE Some(CStr(cv.canon_text)),
   canon_blob |-> IF cv.logical_type = "Bytes" THEN Some(cv.canon_blob) ELSE None,
   hash |-> value_hash(st, cv)]

\* the INSERT of get_or_create_value had f_values.hash not been UNIQUE
insert_value_always(d, row) == [d EXCEPT !.f_values = @ \cup {row}]

\* the INSERT OR IGNORE of get_or_create_value
insert_value_or_ignore(d, row) ==
  IF \E r \in d.f_values : r.hash = row.hash THEN d
  ELSE [d EXCEPT !.f_values = @ \cup {row}]

\* the SELECT of get_or_create_value
select_value_id(d, h) ==
  Done(d, (CHOOSE r \in d.f_values : r.hash = h).value_id)

\* FelixSqlite::get_or_create_value on a store whose members are st
get_or_create_value(d, st, cv) ==
  IF cv.logical_type = "Text" /\ Size(cv.canon_text) > MaxTextBytes
  THEN Throw(d, "ValueTooLarge")
  ELSE IF cv.logical_type = "Bytes" /\ Size(cv.canon_blob) > MaxBlobBytes
  THEN Throw(d, "ValueTooLarge")
  ELSE IF ~type_tag_known(st.tagmap_, cv.logical_type)
  THEN Throw(d, "UnsupportedInLegacy")
  ELSE select_value_id(insert_value_or_ignore(d, value_row(d, st, cv)),
                       value_hash(st, cv))

\* FelixSqlite::get_current: the optional pair (value_id, ts)
get_current(d, record_id, field_id) ==
  IF \E r \in d.current_facts : r.record_id = record_id /\ r.field_id = field_id
  THEN LET r == CHOOSE r \in d.current_facts :
                  r.record_id = record_id /\ r.field_id = field_id
       IN Some([first |-> r.value_id, second |-> r.ts])
  ELSE None

\* struct FactRow
FactRow(record_id, field_id, value_id, ts_ms) ==
  [record_id |-> record_id, field_id |-> field_id, value_id |-> value_id,
   ts |-> ts_ms]

\* the rows of a table of facts that hold the key (record_id, field_id)
OfPair(rows, record_id, field_id) ==
  {r \in rows : r.record_id = record_id /\ r.field_id = field_id}

\* the FOREIGN KEY clauses of facts and current_facts
ForeignKeysHold(d, f) ==
  /\ \E r \in d.records : r.record_id = f.record_id
  /\ \E r \in d.fields : r.field_id = f.field_id
  /\ \E r \in d.f_values : r.value_id = f.value_id

\* insert_fact had facts no primary key
insert_fact_unkeyed(d, f) ==
  IF ~ForeignKeysHold(d, f) THEN Throw(d, "StorageError")
  ELSE Done([d EXCEPT !.facts = @ \cup {f}], 0)

\* insert_fact had its statement been INSERT OR REPLACE
insert_fact_or_replace(d, f) ==
  IF ~ForeignKeysHold(d, f) THEN Throw(d, "StorageError")
  ELSE Done([d EXCEPT !.facts =
               {r \in @ : ~(r.record_id = f.record_id /\ r.field_id = f.field_id
                             /\ r.ts = f.ts)} \cup {f}], 0)

\* FelixSqlite::insert_fact
insert_fact(d, f) ==
  IF \E r \in OfPair(d.facts, f.record_id, f.field_id) : r.ts = f.ts
  THEN Throw(d, "Duplicate")
  ELSE IF ~ForeignKeysHold(d, f) THEN Throw(d, "StorageError")
  ELSE Done([d EXCEPT !.facts = @ \cup {f}], 0)

\* upsert_current_if_newer had its statement ended ON CONFLICT DO NOTHING
upsert_current_if_absent(d, f) ==
  IF OfPair(d.current_facts, f.record_id, f.field_id) # {} THEN Done(d, 0)
  ELSE IF ~ForeignKeysHold(d, f) THEN Throw(d, "StorageError")
  ELSE Done([d EXCEPT !.current_facts = @ \cup {f}], 0)

\* upsert_current_if_newer had its DO UPDATE no WHERE clause
upsert_current_always(d, f) ==
  IF ~ForeignKeysHold(d, f) THEN Throw(d, "StorageError")
  ELSE Done([d EXCEPT !.current_facts =
               (@ \ OfPair(@, f.record_id, f.field_id)) \cup {f}], 0)

\* FelixSqlite::upsert_current_if_newer
upsert_current_if_newer(d, f) ==
  LET old == OfPair(d.current_facts, f.record_id, f.field_id) IN
  IF old = {}
  THEN IF ~ForeignKeysHold(d, f) THEN Throw(d, "StorageError")
       ELSE Done([d EXCEPT !.current_facts = @ \cup {f}], 0)
  ELSE IF \A r \in old : f.ts >= r.ts
  THEN Done([d EXCEPT !.current_facts = (@ \ old) \cup {f}], 0)
  ELSE Done(d, 0)

\* the orders in which a SELECT may return the rows of the set S
Orderings(S) ==
  {o \in [1..Cardinality(S) -> S] :
     \A i, j \in 1..Cardinality(S) : o[i] = o[j] => i = j}

\* FelixSqlite::query_current_eq: the record ids returned, in no fixed order
query_current_eq(d, field_id, value_id) ==
  Orderings({r.record_id : r \in {c \in d.current_facts :
                                    c.field_id = field_id /\ c.value_id = value_id}})

\* query_ever_eq had its SELECT no DISTINCT
query_ever_eq_all(d, field_id, value_id) ==
  {[i \in 1..Len(o) |-> o[i].record_id] :
     o \in Orderings({f \in d.facts : f.field_id = field_id
                                      /\ f.value_id = value_id})}

\* FelixSqlite::query_ever_eq: SELECT DISTINCT record_id, in no fixed order
query_ever_eq(d, field_id, value_id) ==
  Orderings({r.record_id : r \in {f \in d.facts : f.field_id = field_id
                                                  /\ f.value_id = value_id}})

\* the WHERE clause of query_facts_window had it read ts >= ? AND ts < ?
window_rows_half_open(d, t1, t2, record_filter) ==
  {f \in d.facts :
     /\ t1 <= f.ts /\ f.ts < t2
     /\ record_filter # None => f.record_id = record_filter[1]}

\* the rows the WHERE clause of query_facts_window selects: ts BETWEEN t1 AND
\* t2, and record_id = the filter where there is one
window_rows(d, t1, t2, record_filter) ==
  {f \in d.facts :
     /\ t1 <= f.ts /\ f.ts <= t2
     /\ record_filter # None => f.record_id = record_filter[1]}

\* FelixSqlite::query_facts_window: the vectors it may return, ORDER BY ts
\* leaving the order of rows of equal ts open
query_facts_window(d, t1, t2, record_filter) ==
  {o \in Orderings(window_rows(d, t1, t2, record_filter)) :
     \A i, j \in 1..Len(o) : i < j => o[i].ts <= o[j].ts}

\* the subquery of snapshot_at had it no WHERE clause on ts
snapshot_latest_any_ts(d, record_id, t) ==
  {[field_id |-> f.field_id,
    max_ts |-> Max({g.ts : g \in OfPair(d.facts, record_id, f.field_id)})] :
     f \in {g \in d.facts : g.record_id = record_id}}

\* the subquery of snapshot_at: for each field_id of the facts of record_id
\* with ts <= t, the greatest such ts
snapshot_latest(d, record_id, t) ==
  {[field_id |-> f.field_id,
    max_ts |-> Max({g.ts : g \in {h \in OfPair(d.facts, record_id, f.field_id) :
                                    h.ts <= t}})] :
     f \in {g \in d.facts : g.record_id = record_id /\ g.ts <= t}}

\* the join of snapshot_at had it no WHERE f.record_id = ?
snapshot_join_any_record(d, record_id, latest) ==
  {p \in d.facts \X latest :
     p[2].field_id = p[1].field_id /\ p[2].max_ts = p[1].ts}

\* the join of snapshot_at: the pairs of a fact f of record_id and a row of
\* the subquery that meet the ON clause
snapshot_join(d, record_id, latest) ==
  {p \in d.facts \X latest :
     /\ p[1].record_id = record_id
     /\ p[2].field_id = p[1].field_id /\ p[2].max_ts = p[1].ts}

\* the fact columns of the rows of a join, in the order o
JoinedFacts(o) == [i \in 1..Len(o) |-> o[i][1]]

\* FelixSqlite::snapshot_at: the vectors it may return, one row per pair of
\* the join, in no fixed order
snapshot_at(d, record_id, t) ==
  {JoinedFacts(o) :
     o \in Orderings(snapshot_join(d, record_id, snapshot_latest(d, record_id, t)))}

\* FelixSqlite::get_field: the row of field_id, <<>> where the code throws
get_field(d, field_id) ==
  IF \E r \in d.fields : r.field_id = field_id
  THEN Some(CHOOSE r \in d.fields : r.field_id = field_id) ELSE None

\* FelixSqlite::get_value on a store whose members are st: the ValueRow of
\* value_id, <<>> where the code throws
get_value(d, st, value_id) ==
  IF \A r \in d.f_values :
       r.value_id = value_id => logical_type_from_tag(st.tagmap_, r.type_tag) = "error"
  THEN None
  ELSE Some([value_id |-> value_id,
             type |-> logical_type_from_tag(st.tagmap_,
                        (CHOOSE r \in d.f_values : r.value_id = value_id).type_tag),
             canon_text |->
               IF (CHOOSE r \in d.f_values : r.value_id = value_id).canon_text = None
               THEN <<>>
               ELSE (CHOOSE r \in d.f_values : r.value_id = value_id).canon_text[1]])

\* the SELECT of rebuild_current_facts had it joined on MIN(ts)
EarliestFacts(facts) ==
  {f \in facts :
     \A g \in facts :
       g.record_id = f.record_id /\ g.field_id = f.field_id => f.ts <= g.ts}

\* the rows the SELECT of rebuild_current_facts yields: each fact joined with
\* the MAX(ts) of its (record_id, field_id) group
LatestFacts(facts) ==
  {f \in facts : f.ts = Max({g.ts : g \in OfPair(facts, f.record_id, f.field_id)})}

\* the first statement of FelixSqlite::rebuild_current_facts
rebuild_delete(d) == Done([d EXCEPT !.current_facts = {}], 0)

\* the second statement of FelixSqlite::rebuild_current_facts: it fails as a
\* whole when a row to insert meets the primary key of current_facts
rebuild_insert(d) ==
  LET rows == LatestFacts(d.facts) IN
  IF \/ \E f \in rows : OfPair(d.current_facts, f.record_id, f.field_id) # {}
     \/ \E f, g \in rows :
          f # g /\ f.record_id = g.record_id /\ f.field_id = g.field_id
  THEN Throw(d, "StorageError")
  ELSE Done([d EXCEPT !.current_facts = @ \cup rows], 0)

\* FelixSqlite::rebuild_current_facts, its two statements run without a
\* transaction, one after the other
rebuild_current_facts(d) == rebuild_insert(rebuild_delete(d).db)

\* ensure_null_value had it inserted a Null row of its own at every call
ensure_null_value_fresh(d, st) ==
  Done(insert_value_always(d, value_row(d, st, CanonValue("Null", NullText, <<>>))),
       NextRowId({r.value_id : r \in d.f_values}))

\* FelixSqlite::ensure_null_value: the Null value interned, its id returned
ensure_null_value(d, st) ==
  get_or_create_value(d, st, CanonValue("Null", NullText, <<>>))

\* the three meta_set calls of init_schema, after its CREATE TABLE IF NOT
\* EXISTS statements
declare_format(d) ==
  meta_set(meta_set(meta_set([d EXCEPT !.schema = TRUE], "felix_spec", "0.3"),
                    "tag_map", "felix_v03"),
           "hash_format", "felix_v03_sep")

\* the end of init_schema: r is what ensure_null_value gave on the store
\* whose members are st; ret holds the members of the store afterwards
init_schema_null(st, r) ==
  IF r.ok THEN Done(r.db, [st EXCEPT !.null_value_id_ = r.ret])
  ELSE [r EXCEPT !.ret = st]

\* init_schema from its call of load_format_defaults on
init_schema_format(d) ==
  init_schema_null(FelixSqlite(d), ensure_null_value(d, FelixSqlite(d)))

\* FelixSqlite::init_schema on a store opened on d: the tables created if
\* absent, the three meta keys written, the format reloaded, the Null value
\* interned
init_schema(d) == init_schema_format(declare_format(d))

(***************************************************************************)
(* Engine: temporality policy and ingest                                   *)
(***************************************************************************)

\* parse_mode: the mode, or "error" where the code throws
parse_mode(s) ==
  CASE s = "event" -> "EventDriven"
    [] s = "observe" -> "ObservationDriven"
    [] OTHER -> "error"

\* one element of a vector held as runs
One(x) == [x |-> x, n |-> 1]

\* struct IngestItem
IngestItem(field_name, value) == [field_name |-> field_name, value |-> value]

\* the limit of ingest_items
MaxItemsPerIngest == 256

\* what one round of the loop of ingest_items did with the item it: the ids
\* get_or_create_field and get_or_create_value returned (0 when the round did
\* not get that far) and whether a fact was appended
ItemOutcome(it, field_id, value_id, appended) ==
  [item |-> it, field_id |-> field_id, value_id |-> value_id,
   appended |-> appended]

\* the round stopped by the error of the storage call r
ItemFailed(it, field_id, value_id, r) ==
  [r EXCEPT !.ret = ItemOutcome(it, field_id, value_id, FALSE)]

\* the test of the loop had it not looked at the mode
unchanged_any_mode(mode, cur, vid) == cur # None /\ cur[1].first = vid

\* the test of the loop had it been left out
unchanged_never(mode, cur, vid) == FALSE

\* the test of the loop of ingest_items that makes it skip an item: the mode
\* is EventDriven and the current value of the pair, cur, is vid
unchanged(mode, cur, vid) ==
  mode = "EventDriven" /\ cur # None /\ cur[1].first = vid

\* the round from upsert_current_if_newer on, which gave ru
ingest_item_current(it, f, ru) ==
  IF ru.ok THEN Done(ru.db, ItemOutcome(it, f.field_id, f.value_id, TRUE))
  ELSE ItemFailed(it, f.field_id, f.value_id, ru)

\* the round from insert_fact on, which gave ri
ingest_item_fact(it, f, ri) ==
  IF ~ri.ok THEN ItemFailed(it, f.field_id, f.value_id, ri)
  ELSE ingest_item_current(it, f, upsert_current_if_newer(ri.db, f))

\* the round from get_or_create_value on, which gave rv
ingest_item_value(record_id, ts_ms, mode, it, fid, rv) ==
  IF ~rv.ok THEN ItemFailed(it, fid, 0, rv)
  ELSE IF unchanged(mode, get_current(rv.db, record_id, fid), rv.ret)
  THEN Done(rv.db, ItemOutcome(it, fid, rv.ret, FALSE))
  ELSE ingest_item_fact(it, FactRow(record_id, fid, rv.ret, ts_ms),
                        insert_fact(rv.db, FactRow(record_id, fid, rv.ret, ts_ms)))

\* the round from get_or_create_field on, which gave rf
ingest_item_field(st, record_id, ts_ms, mode, it, rf) ==
  IF ~rf.ok THEN ItemFailed(it, 0, 0, rf)
  ELSE ingest_item_value(record_id, ts_ms, mode, it, rf.ret,
                         get_or_create_value(rf.db, st, it.value))

\* one round of the loop of ingest_items, on the item it
ingest_item(d, st, record_id, ts_ms, mode, it) ==
  ingest_item_field(st, record_id, ts_ms, mode, it,
                    get_or_create_field(d, it.field_name))

RECURSIVE Count(_)
\* std::vector::size() of a vector held as runs
Count(v) == IF v = <<>> THEN 0 ELSE Head(v).n + Count(Tail(v))

\* the outcome x of a round put before those of the rounds after it
Prepend(x, rest) == [rest EXCEPT !.ret = <<x>> \o @]

RECURSIVE ingest_loop(_, _, _, _, _, _, _, _)
RECURSIVE ingest_loop_round(_, _, _, _, _, _, _, _)

\* the loop after the round on the k-th copy of run i, which gave r
ingest_loop_round(st, record_id, ts_ms, mode, items, i, k, r) ==
  IF ~r.ok THEN [r EXCEPT !.ret = <<r.ret>>]
  ELSE Prepend(r.ret,
               ingest_loop(r.db, st, record_id, ts_ms, mode, items, i, k + 1))

\* the loop of ingest_items from the k-th copy of run i on; ret is the
\* sequence of the outcomes of the rounds run, the failing one included
ingest_loop(d, st, record_id, ts_ms, mode, items, i, k) ==
  IF i > Len(items) THEN Done(d, <<>>)
  ELSE IF k > items[i].n
  THEN ingest_loop(d, st, record_id, ts_ms, mode, items, i + 1, 1)
  ELSE ingest_loop_round(st, record_id, ts_ms, mode, items, i, k,
                         ingest_item(d, st, record_id, ts_ms, mode, items[i].x))

\* the head of the function ingest_items hands to with_tx, from the test of
\* items.size() on; r is what ensure_record gave
ingest_open_size(items, r) ==
  IF Count(items) > MaxItemsPerIngest
  THEN [Throw(r.db, "FieldsPerCallExceeded") EXCEPT !.ret = <<>>]
  ELSE [r EXCEPT !.ret = <<>>]

\* the head of the function ingest_items hands to with_tx: ensure_record and
\* the test of items.size()
ingest_open(d, record_id, ts_ms, items) ==
  ingest_open_size(items, ensure_record(d, record_id, ts_ms))

\* the function from its loop on; r is what its head gave
ingest_body_loop(st, record_id, ts_ms, mode, items, r) ==
  IF ~r.ok THEN r
  ELSE ingest_loop(r.db, st, record_id, ts_ms, mode, items, 1, 1)

\* the function ingest_items hands to with_tx
ingest_body(d, st, record_id, ts_ms, mode, items) ==
  ingest_body_loop(st, record_id, ts_ms, mode, items,
                   ingest_open(d, record_id, ts_ms, items))

\* the statements of fn run without BEGIN IMMEDIATE, each committing itself
committed_view_autocommit(d, w) == w

\* what the other connections read while fn runs between the BEGIN IMMEDIATE
\* and the COMMIT of with_tx: the committed database d, not the working
\* copy w of the writer
committed_view(d, w) == d

\* with_tx without its catch block
with_tx_no_rollback(d, r) == r

\* FelixSqlite::with_tx, given the outcome r of running fn on the database d:
\* the outcome of the call, committed or rolled back
with_tx(d, r) == IF r.ok THEN r ELSE [r EXCEPT !.db = d]

\* ingest_items
ingest_items(d, st, record_id, ts_ms, mode, items) ==
  with_tx(d, ingest_body(d, st, record_id, ts_ms, mode, items))

(***************************************************************************)
(* Command surface.  A command-line token Field=type:value is the record   *)
(* of its three parts, split at the first '=' and the first ':'.           *)
(***************************************************************************)

Token(field, type, value) == [field |-> field, type |-> type, value |-> value]

\* the end of parse_typed_kv: c is what canonicalize_typed_value gave
parse_typed_kv_value(token, c) ==
  IF ~c.ok THEN [ok |-> FALSE, err |-> c.err, ret |-> <<>>]
  ELSE [ok |-> TRUE, err |-> "",
        ret |-> <<IngestItem(trim_copy(token.field), c.cv)>>]

\* parse_typed_kv: ret is the IngestItem
parse_typed_kv(token) ==
  IF parse_type(token.type) = "error"
  THEN [ok |-> FALSE, err |-> "ParseError", ret |-> <<>>]
  ELSE parse_typed_kv_value(token,
         canonicalize_typed_value(parse_type(token.type), token.value))

\* the item vector of run_felix, given what parse_typed_kv gave for each
\* token: the vector, or the error of the first token that does not parse
collect_items(tokens, parsed) ==
  IF \E i \in 1..Len(tokens) : ~parsed[i].ok
  THEN parsed[CHOOSE i \in 1..Len(tokens) :
                /\ ~parsed[i].ok
                /\ \A j \in 1..(i - 1) : parsed[j].ok]
  ELSE [ok |-> TRUE, err |-> "",
        ret |-> [i \in 1..Len(tokens) |->
                   [x |-> parsed[i].ret[1], n |-> tokens[i].n]]]

\* the loop of run_felix over argv[6..]
parse_items(tokens) ==
  collect_items(tokens, [i \in 1..Len(tokens) |-> parse_typed_kv(tokens[i].x)])

\* run_felix, command init
run_init(d) == init_schema(d)

\* run_felix, command ingest, from its call of ingest_items on; r0 is what
\* init_schema gave, p what the token loop gave
run_ingest_parsed(record_id, ts_ms, mode, r0, p) ==
  IF ~p.ok THEN [Throw(r0.db, p.err) EXCEPT !.ret = <<>>]
  ELSE ingest_items(r0.db, r0.ret, record_id, ts_ms, mode, p.ret)

\* run_felix, command ingest, after init_schema, which gave r0
run_ingest_opened(record_id, ts_ms, mode_s, tokens, r0) ==
  IF ~r0.ok THEN [r0 EXCEPT !.ret = <<>>]
  ELSE IF parse_mode(mode_s) = "error"
  THEN [Throw(r0.db, "ParseError") EXCEPT !.ret = <<>>]
  ELSE run_ingest_parsed(record_id, ts_ms, parse_mode(mode_s), r0,
                         parse_items(tokens))

\* run_felix, command ingest: init_schema, then the tokens parsed, then
\* ingest_items
run_ingest(d, record_id, ts_ms, mode_s, tokens) ==
  run_ingest_opened(record_id, ts_ms, mode_s, tokens, init_schema(d))

\* run_felix, command rebuild_current, after init_schema, which gave r0
run_rebuild_opened(r0) ==
  IF ~r0.ok THEN r0 ELSE rebuild_current_facts(r0.db)

\* run_felix, command rebuild_current
run_rebuild_current(d) == run_rebuild_opened(init_schema(d))

\* a command-line argument type:value after split_once
TypedValue(type, value) == [type |-> type, value |-> value]

\* parse_cli_type_value: [ok, err, cv]
parse_cli_type_value(tv) ==
  IF parse_type(tv.type) = "error" THEN CanonError("ParseError")
  ELSE canonicalize_typed_value(parse_type(tv.type), tv.value)

\* the rows the query of current_eq or ever_eq may print
query_eq(d, cmd, fid, vid) ==
  IF cmd = "current_eq" THEN query_current_eq(d, fid, vid)
  ELSE query_ever_eq(d, fid, vid)

\* run_felix, commands current_eq and ever_eq, from the query on; rv is what
\* get_or_create_value gave
run_query_eq_value(cmd, fid, rv) ==
  IF ~rv.ok THEN {[rv EXCEPT !.ret = <<>>]}
  ELSE {Done(rv.db, rows) : rows \in query_eq(rv.db, cmd, fid, rv.ret)}

\* run_felix, commands current_eq and ever_eq, from parse_cli_type_value on,
\* which gave c; rf is what get_or_create_field gave
run_query_eq_parsed(cmd, st, rf, c) ==
  IF ~c.ok THEN {[Throw(rf.db, c.err) EXCEPT !.ret = <<>>]}
  ELSE run_query_eq_value(cmd, rf.ret, get_or_create_value(rf.db, st, c.cv))

\* run_felix, commands current_eq and ever_eq, after get_or_create_field,
\* which gave rf
run_query_eq_field(cmd, st, typed_value, rf) ==
  IF ~rf.ok THEN {[rf EXCEPT !.ret = <<>>]}
  ELSE run_query_eq_parsed(cmd, st, rf, parse_cli_type_value(typed_value))

\* run_felix, commands current_eq and ever_eq, after init_schema, which gave r0
run_query_eq_opened(cmd, field, typed_value, r0) ==
  IF ~r0.ok THEN {[r0 EXCEPT !.ret = <<>>]}
  ELSE run_query_eq_field(cmd, r0.ret, typed_value,
                          get_or_create_field(r0.db, field))

\* run_felix, commands current_eq and ever_eq: the outcomes the command may
\* have, one per order in which the query may return its rows
run_query_eq(d, cmd, field, typed_value) ==
  run_query_eq_opened(cmd, field, typed_value, init_schema(d))

\* fact_to_json, given what get_field and get_value gave for the fact f:
\* <<>> where one of them throws
fact_json(f, fr, vr) ==
  IF fr = None \/ vr = None THEN None
  ELSE Some([record_id |-> f.record_id, field_id |-> f.field_id,
             field_name |-> fr[1].name_canon, value_id |-> f.value_id,
             type |-> type_to_string(vr[1].type), canon |-> vr[1].canon_text,
             ts_ms |-> f.ts])

\* fact_to_json on a store whose members are st
fact_to_json(d, st, f) ==
  fact_json(f, get_field(d, f.field_id), get_value(d, st, f.value_id))

\* the output loop of the command facts_window over the vector facts
print_facts(d, st, facts) ==
  IF \E i \in 1..Len(facts) : fact_to_json(d, st, facts[i]) = None
  THEN [Throw(d, "StorageError") EXCEPT !.ret = <<>>]
  ELSE Done(d, [i \in 1..Len(facts) |-> fact_to_json(d, st, facts[i])[1]])

\* run_felix, command facts_window, after init_schema, which gave r0
run_facts_window_opened(t1, t2, rid, r0) ==
  IF ~r0.ok THEN {[r0 EXCEPT !.ret = <<>>]}
  ELSE {print_facts(r0.db, r0.ret, facts) :
          facts \in query_facts_window(r0.db, t1, t2, rid)}

\* run_felix, command facts_window; rid is the optional record filter
run_facts_window(d, t1, t2, rid) ==
  run_facts_window_opened(t1, t2, rid, init_schema(d))

\* one member of the fields object of snapshot_to_json
snapshot_field(j) ==
  [field_name |-> j.field_name, field_id |-> j.field_id,
   value_id |-> j.value_id, type |-> j.type, canon |-> j.canon,
   fact_ts_ms |-> j.ts_ms]

\* snapshot_to_json: the members of the fields object, a later row replacing
\* the member an earlier row of the same field name had set
snapshot_to_json(d, st, rows) ==
  IF \E i \in 1..Len(rows) : fact_to_json(d, st, rows[i]) = None
  THEN [Throw(d, "StorageError") EXCEPT !.ret = {}]
  ELSE Done(d, {snapshot_field(fact_to_json(d, st, rows[i])[1]) :
                  i \in {k \in 1..Len(rows) :
                           \A m \in (k + 1)..Len(rows) :
                             fact_to_json(d, st, rows[m])[1].field_name
                               # fact_to_json(d, st, rows[k])[1].field_name}})

\* run_felix, command snapshot, after init_schema, which gave r0
run_snapshot_opened(rid, t, r0) ==
  IF ~r0.ok THEN {[r0 EXCEPT !.ret = {}]}
  ELSE {snapshot_to_json(r0.db, r0.ret, rows) : rows \in snapshot_at(r0.db, rid, t)}

\* run_felix, command snapshot
run_snapshot(d, rid, t) == run_snapshot_opened(rid, t, init_schema(d))

(***************************************************************************)
(* NDJSON ingestion.  A file is the sequence of the lines std::getline     *)
(* reads from it; a line is its bytes together with the JSON document      *)
(* json::parse makes of them, if they are one.  An object with named       *)
(* members is the record m of the members it contains; the object under    *)
(* "fields" is the sequence of its members in the order of its keys.  The  *)
(* names of types and modes are held as they are in command-line tokens.   *)
(***************************************************************************)

\* the limit of ingest_ndjson_file on the bytes of a line
MaxLineBytes == 2097152

Line(text, doc) == [text |-> text, doc |-> doc]
JsonObject(m) == [is |-> "object", m |-> m]
JsonFields(items) == [is |-> "object", items |-> items]

\* json::contains on a member name
contains(j, k) == j.is = "object" /\ k \in DOMAIN j.m

RECURSIVE DecimalValue(_)
\* the number a string of digits denotes
DecimalValue(ds) ==
  IF ds = <<>> THEN 0
  ELSE 10 * DecimalValue(SubSeq(ds, 1, Len(ds) - 1)) + (ds[Len(ds)] - 48)

\* j.get<uint64_t>() and j.get<int64_t>() on an integer that both types hold
get_integer(j) == IF j.neg THEN 0 - DecimalValue(j.text) ELSE DecimalValue(j.text)

\* the end of item_from_field_json: c is what canonicalize_typed_value gave
item_from_field_json_value(field_name, c) ==
  IF ~c.ok THEN [ok |-> FALSE, err |-> c.err, ret |-> <<>>]
  ELSE [ok |-> TRUE, err |-> "", ret |-> <<IngestItem(field_name, c.cv)>>]

\* item_from_field_json from the type t it has parsed on
item_from_field_json_typed(field_name, j, t) ==
  IF t = "error" THEN [ok |-> FALSE, err |-> "ParseError", ret |-> <<>>]
  ELSE IF t = "Null"
  THEN item_from_field_json_value(field_name,
                                  canonicalize_typed_value_json(t, JsonNull))
  ELSE IF ~contains(j, "v") THEN [ok |-> FALSE, err |-> "ParseError", ret |-> <<>>]
  ELSE item_from_field_json_value(field_name,
                                  canonicalize_typed_value_json(t, j.m.v))

\* item_from_field_json: ret is the IngestItem
item_from_field_json(field_name, j) ==
  IF j.is # "object" \/ ~contains(j, "t") \/ j.m.t.is # "string"
  THEN [ok |-> FALSE, err |-> "ParseError", ret |-> <<>>]
  ELSE item_from_field_json_typed(field_name, j, parse_type(j.m.t.s))

\* the loop of ingest_ndjson_file over the members of fields
ndjson_items(fields) ==
  collect_items([i \in 1..Len(fields.items) |-> One(fields.items[i])],
                [i \in 1..Len(fields.items) |->
                   item_from_field_json(fields.items[i].key, fields.items[i].value)])

\* the mode of a line: that of its member "mode" if it has one ("error"
\* where the code throws), the default of the command otherwise
ndjson_mode(j, default_mode) ==
  IF ~contains(j, "mode") THEN default_mode
  ELSE IF j.m.mode.is # "string" THEN "error"
  ELSE parse_mode(j.m.mode.s)

\* a line of ingest_ndjson_file from its loop over fields on, which gave p
ingest_ndjson_items(d, st, j, mode, p) ==
  IF ~p.ok THEN Throw(d, p.err)
  ELSE ingest_items(d, st, get_integer(j.m.record_id), get_integer(j.m.ts_ms),
                    mode, p.ret)

\* a line of ingest_ndjson_file after json::parse, which gave j
ingest_ndjson_doc(d, st, j, default_mode) ==
  IF ~(contains(j, "record_id") /\ contains(j, "ts_ms") /\ contains(j, "fields"))
  THEN Throw(d, "ParseError")
  ELSE IF j.m.record_id.is \notin {"number_integer", "number_unsigned"}
  THEN Throw(d, "ParseError")
  ELSE IF j.m.ts_ms.is \notin {"number_integer", "number_unsigned"}
  THEN Throw(d, "ParseError")
  ELSE IF ndjson_mode(j, default_mode) = "error" THEN Throw(d, "ParseError")
  ELSE IF j.m.fields.is # "object" THEN Throw(d, "ParseError")
  ELSE ingest_ndjson_items(d, st, j, ndjson_mode(j, default_mode),
                           ndjson_items(j.m.fields))

\* one round of the loop of ingest_ndjson_file, on the line it has read
ingest_ndjson_line(d, st, line, default_mode) ==
  IF Size(line.text) > MaxLineBytes THEN Throw(d, "LineTooLarge")
  ELSE IF trim_copy(line.text) = <<>> THEN Done(d, <<>>)
  ELSE IF line.doc = None THEN Throw(d, "ParseError")
  ELSE ingest_ndjson_doc(d, st, line.doc[1], default_mode)

RECURSIVE ingest_ndjson_loop(_, _, _, _, _)

\* the loop had it caught the error of a line and gone on to the next
ingest_ndjson_next_line(st, lines, default_mode, i, r) ==
  ingest_ndjson_loop(r.db, st, lines, default_mode, i + 1)

\* the loop after the round on line i, which gave r
ingest_ndjson_next(st, lines, default_mode, i, r) ==
  IF ~r.ok THEN [r EXCEPT !.ret = i]
  ELSE ingest_ndjson_loop(r.db, st, lines, default_mode, i + 1)

\* the loop of ingest_ndjson_file from line i on; ret is the number of lines
\* std::getline has read when the function returns or throws
ingest_ndjson_loop(d, st, lines, default_mode, i) ==
  IF i > Len(lines) THEN Done(d, Len(lines))
  ELSE ingest_ndjson_next(st, lines, default_mode, i,
                          ingest_ndjson_line(d, st, lines[i], default_mode))

\* ingest_ndjson_file on a file that opens
ingest_ndjson_file(d, st, lines, default_mode) ==
  ingest_ndjson_loop(d, st, lines, default_mode, 1)

\* run_felix, command ingest_ndjson, after init_schema, which gave r0; def is
\* argv[4] if there is one
run_ingest_ndjson_opened(lines, def, r0) ==
  IF ~r0.ok THEN [r0 EXCEPT !.ret = 0]
  ELSE IF def = None
  THEN ingest_ndjson_file(r0.db, r0.ret, lines, "EventDriven")
  ELSE IF parse_mode(def[1]) = "error" THEN Throw(r0.db, "ParseError")
  ELSE ingest_ndjson_file(r0.db, r0.ret, lines, parse_mode(def[1]))

\* run_felix, command ingest_ndjson
run_ingest_ndjson(d, lines, def) ==
  run_ingest_ndjson_opened(lines, def, init_schema(d))

(***************************************************************************)
(* State                                                                   *)
(***************************************************************************)

VARIABLES
  db,    \* the committed content of the database file
  last,  \* the last command run and its outcome
  lock,  \* the connection that holds the write lock of the file, or 0
  proc,  \* for each writing connection, how far its command has got
  seen   \* the reading connection and the rows its query returned

vars == <<db, last, lock, proc, seen>>

\* bound of the model: ingest commands are issued while the facts table
\* holds fewer rows than this
MaxFacts == 2

RecordIds == {1, 2}
Timestamps == {1, 2, 3}
Modes == {"event", "observe"}

FieldA == Str(<<97>>)
FieldB == Str(<<98>>)
TextX == Str(<<120>>)
TextPaddedX == Str(<<32, 120, 32>>)
TextY == Str(<<121>>)

\* the token lists of the ingest commands
TokenLists ==
  { <<One(Token(FieldA, "text", TextX))>>,
    <<One(Token(FieldA, "text", TextY))>>,
    <<One(Token(FieldA, "text", TextPaddedX))>>,
    <<One(Token(FieldA, "text", TextX)), One(Token(FieldB, "text", TextX))>>,
    <<One(Token(FieldA, "text", TextX)), One(Token(FieldA, "text", TextY))>> }

\* token lists no ingest accepts: a text over the size limit after a good
\* item, a value that does not parse, one item more than a call may carry
BadTokenLists ==
  { <<One(Token(FieldB, "text", TextY)),
      One(Token(FieldA, "text", <<Run(120, MaxTextBytes + 1)>>))>>,
    <<One(Token(FieldB, "text", TextY)), One(Token(FieldA, "bool", TextX))>>,
    <<[x |-> Token(FieldA, "null", <<>>), n |-> MaxItemsPerIngest + 1]>> }

\* a database of the legacy format: the tables exist, the meta keys name the
\* legacy tag map and hash format
LegacyEmptyDb ==
  [EmptyDb EXCEPT !.schema = TRUE,
                  !.meta = {[k |-> "felix_spec", v |-> "0.2"],
                            [k |-> "tag_map", v |-> "legacy_v02"],
                            [k |-> "hash_format", v |-> "legacy_no_sep"]}]

\* a legacy database holding one fact, written under the legacy format
LegacyDb ==
  ingest_items(LegacyEmptyDb, FelixSqlite(LegacyEmptyDb), 1, 1, "ObservationDriven",
               <<One(IngestItem(FieldA, CanonValue("Text", TextX, <<>>)))>>).db

NoCommand == [cmd |-> "none", args |-> <<>>, ok |-> TRUE, err |-> "", ret |-> <<>>]

\* the writing connections
Procs == {1, 2}

\* a connection that runs no command; out is the outcome of its last one
IdleProc(out) ==
  [pc |-> "idle", out |-> out, st |-> FelixSqlite(EmptyDb), items |-> <<>>,
   i |-> 0, base |-> EmptyDb, work |-> EmptyDb]

\* the reading connection before its query
NoQuery ==
  [pc |-> "idle", n |-> 0, during |-> 0, facts |-> {}, current_facts |-> {}]

Sequential ==
  /\ lock = 0
  /\ proc = [p \in Procs |-> IdleProc(NoCommand)]
  /\ seen = NoQuery

Init ==
  /\ db \in {EmptyDb, LegacyDb}
  /\ last = NoCommand
  /\ Sequential

Outcome(cmd, args, r) ==
  [cmd |-> cmd, args |-> args, ok |-> r.ok, err |-> r.err, ret |-> r.ret]

\* the command cmd has run to its end with the outcome r
Apply(cmd, args, r) ==
  /\ db' = r.db
  /\ last' = Outcome(cmd, args, r)
  /\ UNCHANGED <<lock, proc, seen>>

\* the argv of an ingest command
IngestArgs(record_id, ts_ms, mode_s, tokens) ==
  [record_id |-> record_id, ts_ms |-> ts_ms, mode |-> mode_s, tokens |-> tokens]

CmdInit ==
  /\ Apply("init", <<>>, run_init(db))

CmdIngest(record_id, ts_ms, mode_s, tokens) ==
  /\ Cardinality(db.facts) < MaxFacts
  /\ Apply("ingest", IngestArgs(record_id, ts_ms, mode_s, tokens),
           run_ingest(db, record_id, ts_ms, mode_s, tokens))

CmdRebuildCurrent ==
  /\ Apply("rebuild_current", <<>>, run_rebuild_current(db))

Next ==
  \/ CmdInit
  \/ \E record_id \in RecordIds, ts_ms \in Timestamps, mode_s \in Modes,
        tokens \in TokenLists : CmdIngest(record_id, ts_ms, mode_s, tokens)
  \/ \E ts_ms \in Timestamps, tokens \in BadTokenLists :
        CmdIngest(1, ts_ms, "observe", tokens)
  \/ CmdRebuildCurrent

Spec == Init /\ [][Next]_vars

(***************************************************************************)
(* The whole command surface of run_felix, one command after the other:    *)
(* init, ingest of every type of value, current_eq, ever_eq, facts_window, *)
(* snapshot and rebuild_current, on a new file or on a legacy database.    *)
(***************************************************************************)

CliTimestamps == {1, 2}

FieldC == Str(<<99>>)
TextZ == Str(<<122>>)

\* "eA==", the base64 of the byte x
Base64X == Str(<<101, 65, 61, 61>>)

\* "AAAAAAAA-AAAA-AAAA-AAAA-AAAAAAAAAAAA"
UuidUpperA ==
  <<Run(65, 8), Run(45, 1), Run(65, 4), Run(45, 1), Run(65, 4), Run(45, 1),
    Run(65, 4), Run(45, 1), Run(65, 12)>>

\* single tokens for field a, one per type an ingest accepts: the values
\* x (text), x (bytes), a uuid in capitals, +07 (float), -0 (int), true, null
TypedTokenLists ==
  { <<One(Token(FieldA, "text", TextX))>>,
    <<One(Token(FieldA, "bytes", Base64X))>>,
    <<One(Token(FieldA, "uuid", UuidUpperA))>>,
    <<One(Token(FieldA, "float", Str(<<43, 48, 55>>)))>>,
    <<One(Token(FieldA, "int", Str(<<45, 48>>)))>>,
    <<One(Token(FieldA, "bool", TrueText))>>,
    <<One(Token(FieldA, "null", <<>>))>> }

\* token lists for both modes: one text, and the same field named twice with
\* one value
CliTokenLists ==
  { <<One(Token(FieldA, "text", TextX))>>,
    <<[x |-> Token(FieldA, "text", TextX), n |-> 2]>> }

\* token lists that fail: the same field named twice with two values, a
\* value that does not parse after an item that does
CliBadTokenLists ==
  { <<One(Token(FieldA, "text", TextX)), One(Token(FieldA, "text", TextY))>>,
    <<One(Token(FieldB, "text", TextX)), One(Token(FieldA, "bool", TextX))>> }

\* the arguments of current_eq and ever_eq: a field and a value some ingest
\* names, a field and a value no ingest names, a value that does not parse
QueryFields == {FieldA, FieldC}
QueryValues ==
  {TypedValue("text", TextX), TypedValue("text", TextZ), TypedValue("bool", TextX)}

\* the arguments of facts_window: t1, t2 and the optional record id
WindowArgs ==
  {<<<<1, 2>>, None>>, <<<<2, 1>>, None>>, <<<<2, 2>>, Some(1)>>}

\* the arguments of snapshot: the record id and t
SnapshotArgs == {<<1, 1>>, <<2, 2>>}

CmdQueryEq(cmd, field, typed_value) ==
  \E r \in run_query_eq(db, cmd, field, typed_value) :
    Apply(cmd, [field |-> field, typed_value |-> typed_value], r)

CmdFactsWindow(t1, t2, rid) ==
  \E r \in run_facts_window(db, t1, t2, rid) :
    Apply("facts_window", [t1 |-> t1, t2 |-> t2, rid |-> rid], r)

CmdSnapshot(rid, t) ==
  \E r \in run_snapshot(db, rid, t) :
    Apply("snapshot", [rid |-> rid, t |-> t], r)

NextCli ==
  \/ CmdInit
  \/ \E tokens \in TypedTokenLists : CmdIngest(1, 2, "observe", tokens)
  \/ \E ts_ms \in CliTimestamps, mode_s \in Modes, tokens \in CliTokenLists :
        CmdIngest(1, ts_ms, mode_s, tokens)
  \/ \E tokens \in CliBadTokenLists : CmdIngest(1, 1, "observe", tokens)
  \/ \E field \in QueryFields, typed_value \in QueryValues :
        CmdQueryEq("current_eq", field, typed_value)
  \/ \E field \in QueryFields, typed_value \in QueryValues :
        CmdQueryEq("ever_eq", field, typed_value)
  \/ \E w \in WindowArgs : CmdFactsWindow(w[1][1], w[1][2], w[2])
  \/ \E a \in SnapshotArgs : CmdSnapshot(a[1], a[2])
  \/ CmdRebuildCurrent

SpecCli == Init /\ [][NextCli]_vars

(***************************************************************************)
(* Several connections on one database file.  The file is in WAL mode: a   *)
(* statement that writes needs the write lock of the file and fails with   *)
(* SQLITE_BUSY while another connection holds it (no busy timeout is set); *)
(* a statement outside a transaction commits by itself; a SELECT reads the *)
(* committed content.  Every connection has run init_schema on the file    *)
(* before, so that the init_schema of a command changes nothing but still  *)
(* needs the write lock.  A command is a sequence of steps, one per round  *)
(* of the loop of ingest_items and one per statement of                    *)
(* rebuild_current_facts; its process may be killed between two steps.     *)
(***************************************************************************)

\* bound of the model: the queries the reading connection runs
MaxQueries == 1

ConcTimestamps == {1, 2}

\* the token lists of the ingest commands of connection 1, which all parse
\* and intern, and of connection 2, which fail at their second item
ConcTokenLists(p) ==
  IF p = 1
  THEN { <<One(Token(FieldA, "text", TextPaddedX)),
           One(Token(FieldB, "text", TextX))>>,
         <<One(Token(FieldA, "text", TextY))>> }
  ELSE { <<One(Token(FieldB, "text", TextX)),
           One(Token(FieldA, "text", <<Run(120, MaxTextBytes + 1)>>))>> }

InitConc ==
  /\ db = init_schema(EmptyDb).db
  /\ last = NoCommand
  /\ Sequential

\* a command of connection p ends here
Finish(p, cmd, args, ok, err, ret) ==
  proc' = [proc EXCEPT ![p] =
             IdleProc([cmd |-> cmd, args |-> args, ok |-> ok, err |-> err,
                       ret |-> ret])]

\* the ingest command of connection p fails before its transaction, after
\* init_schema, which gave r0
ConcIngestRefused(p, args, r0, err) ==
  /\ Finish(p, "ingest", args, FALSE, err, <<>>)
  /\ db' = r0.db
  /\ UNCHANGED lock

\* the transaction of ingest_items opened: ro is what ensure_record and the
\* test of items.size() gave on the items of pi
ConcIngestOpened(p, args, r0, pi, ro) ==
  IF ~ro.ok THEN ConcIngestRefused(p, args, r0, ro.err)
  ELSE /\ proc' = [proc EXCEPT ![p] =
                     [pc |-> "tx",
                      out |-> [cmd |-> "ingest", args |-> args, ok |-> TRUE,
                               err |-> "", ret |-> <<>>],
                      st |-> r0.ret, items |-> pi.ret, i |-> 1,
                      base |-> r0.db, work |-> ro.db]]
       /\ lock' = p
       /\ db' = committed_view(r0.db, ro.db)

\* the ingest command after init_schema, which gave r0, and the token loop,
\* which gave pi
ConcIngestParsed(p, args, r0, pi) ==
  IF parse_mode(args.mode) = "error" THEN ConcIngestRefused(p, args, r0, "ParseError")
  ELSE IF ~pi.ok THEN ConcIngestRefused(p, args, r0, pi.err)
  ELSE ConcIngestOpened(p, args, r0, pi,
                        ingest_open(r0.db, args.record_id, args.ts_ms, pi.ret))

\* run_felix, command ingest, up to the first round of the loop: init_schema,
\* the tokens parsed, BEGIN IMMEDIATE, ensure_record, the test of items.size()
ConcIngestBegin(p, record_id, ts_ms, mode_s, tokens) ==
  /\ proc[p].pc = "idle"
  /\ Cardinality(db.facts) < MaxFacts
  /\ UNCHANGED <<last, seen>>
  /\ IF lock # 0
     THEN /\ Finish(p, "ingest", IngestArgs(record_id, ts_ms, mode_s, tokens),
                    FALSE, "Busy", <<>>)
          /\ UNCHANGED <<db, lock>>
     ELSE ConcIngestParsed(p, IngestArgs(record_id, ts_ms, mode_s, tokens),
                           init_schema(db), parse_items(tokens))

\* the round of connection p, whose command is at q, gave r; where it threw,
\* the ROLLBACK of with_tx
ConcIngestRound(p, q, r) ==
  IF r.ok
  THEN /\ proc' = [proc EXCEPT ![p].work = r.db, ![p].i = q.i + 1,
                               ![p].out.ret = Append(@, r.ret)]
       /\ db' = committed_view(db, r.db)
       /\ UNCHANGED lock
  ELSE /\ Finish(p, "ingest", q.out.args, FALSE, r.err, Append(q.out.ret, r.ret))
       /\ lock' = 0
       /\ UNCHANGED db

\* one round of the loop of ingest_items (every run of the item vector holds
\* one item here)
ConcIngestItem(p) ==
  /\ proc[p].pc = "tx"
  /\ proc[p].i <= Len(proc[p].items)
  /\ UNCHANGED <<last, seen>>
  /\ ConcIngestRound(p, proc[p],
       ingest_item(proc[p].work, proc[p].st, proc[p].out.args.record_id,
                   proc[p].out.args.ts_ms, parse_mode(proc[p].out.args.mode),
                   proc[p].items[proc[p].i].x))

\* the COMMIT of with_tx
ConcIngestCommit(p) ==
  /\ proc[p].pc = "tx"
  /\ proc[p].i > Len(proc[p].items)
  /\ db' = proc[p].work
  /\ lock' = 0
  /\ proc' = [proc EXCEPT ![p].pc = "idle"]
  /\ UNCHANGED <<last, seen>>

\* run_felix, command rebuild_current, up to the first statement of
\* rebuild_current_facts: init_schema, DELETE FROM current_facts
ConcRebuildDelete(p) ==
  /\ proc[p].pc = "idle"
  /\ UNCHANGED <<last, seen, lock>>
  /\ IF lock # 0
     THEN /\ Finish(p, "rebuild_current", <<>>, FALSE, "Busy", <<>>)
          /\ UNCHANGED db
     ELSE /\ proc' = [proc EXCEPT ![p] =
                        [IdleProc([cmd |-> "rebuild_current", args |-> <<>>,
                                   ok |-> TRUE, err |-> "", ret |-> <<>>])
                           EXCEPT !.pc = "deleted", !.base = db]]
          /\ db' = rebuild_delete(init_schema(db).db).db

\* the second statement of rebuild_current_facts gave r
ConcRebuildInserted(p, r) ==
  /\ Finish(p, "rebuild_current", <<>>, r.ok, r.err, <<>>)
  /\ db' = r.db

\* the second statement of rebuild_current_facts
ConcRebuildInsert(p) ==
  /\ proc[p].pc = "deleted"
  /\ UNCHANGED <<last, seen, lock>>
  /\ IF lock # 0
     THEN /\ Finish(p, "rebuild_current", <<>>, FALSE, "Busy", <<>>)
          /\ UNCHANGED db
     ELSE ConcRebuildInserted(p, rebuild_insert(db))

\* the process of connection p is killed in the middle of its command: what
\* it had not committed is lost, its lock is released
ConcKill(p) ==
  /\ proc[p].pc # "idle"
  /\ Finish(p, proc[p].out.cmd, proc[p].out.args, FALSE, "Killed", proc[p].out.ret)
  /\ lock' = IF lock = p THEN 0 ELSE lock
  /\ UNCHANGED <<db, last, seen>>

\* the reading connection starts a query command: init_schema, which needs
\* the write lock
ConcQueryOpen ==
  /\ seen.pc = "idle"
  /\ seen.n < MaxQueries
  /\ lock = 0
  /\ seen' = [seen EXCEPT !.pc = "open"]
  /\ db' = init_schema(db).db
  /\ UNCHANGED <<last, lock, proc>>

\* the SELECT of the query (query_facts_window on facts, query_current_eq on
\* current_facts): it returns rows of the committed database
ConcQueryRead ==
  /\ seen.pc = "open"
  /\ seen' = [pc |-> "idle", n |-> seen.n + 1, during |-> lock,
              facts |-> db.facts, current_facts |-> db.current_facts]
  /\ UNCHANGED <<db, last, lock, proc>>

NextConc ==
  \/ \E p \in Procs, ts_ms \in ConcTimestamps :
        \E tokens \in ConcTokenLists(p) :
          ConcIngestBegin(p, 1, ts_ms, "observe", tokens)
  \/ \E p \in Procs : ConcIngestItem(p)
  \/ \E p \in Procs : ConcIngestCommit(p)
  \/ \E p \in Procs : ConcRebuildDelete(p)
  \/ \E p \in Procs : ConcRebuildInsert(p)
  \/ \E p \in Procs : ConcKill(p)
  \/ ConcQueryOpen
  \/ ConcQueryRead

SpecConc == InitConc /\ [][NextConc]_vars

(***************************************************************************)
(* Properties of the command surface                                       *)
(***************************************************************************)

\* the five data tables of a database
Tables(d) == <<d.records, d.fields, d.f_values, d.facts, d.current_facts>>

\* an ingest command that carries exactly one token, which parses
SingleItem(l) ==
  /\ l.cmd = "ingest"
  /\ Len(l.args.tokens) = 1
  /\ l.args.tokens[1].n = 1
  /\ parse_typed_kv(l.args.tokens[1].x).ok

\* the item of such a command
ItemOf(l) == parse_typed_kv(l.args.tokens[1].x).ret[1]

\* C1: after any sequence of commands, failed and rolled back ingests
\* included, every (record, field) pair with a row in facts has exactly one
\* row in current_facts, whose ts is the maximum ts of the pair's facts and
\* whose value_id is that of the fact at that ts; current_facts has no row
\* for a pair without facts.
C1_CurrentIsMaxTs ==
  /\ \A f \in db.facts :
       LET cur == OfPair(db.current_facts, f.record_id, f.field_id)
           all == OfPair(db.facts, f.record_id, f.field_id)
       IN /\ Cardinality(cur) = 1
          /\ \A c \in cur :
               /\ \A g \in all : g.ts <= c.ts
               /\ \E g \in all : g.ts = c.ts /\ g.value_id = c.value_id
  /\ \A c \in db.current_facts : OfPair(db.facts, c.record_id, c.field_id) # {}

\* an ingest has just appended a fact older than, and different in value
\* from, another fact of its pair
C1_Witness ==
  /\ last.cmd = "ingest" /\ last.ok
  /\ \E f, g \in db.facts :
       /\ f.record_id = g.record_id /\ f.field_id = g.field_id
       /\ f.ts = last.args.ts_ms /\ f.ts < g.ts /\ f.value_id # g.value_id

\* two successive single-item ingests l1, l2 of one value to one fresh
\* (record, field) pair at times t1 < t2 in one mode; d is the database
\* between them
C2_Case(l1, l2, d) ==
  /\ SingleItem(l1) /\ l1.ok /\ l1.ret[1].appended
  /\ SingleItem(l2)
  /\ l2.args.record_id = l1.args.record_id
  /\ ItemOf(l2) = l1.ret[1].item
  /\ l1.args.ts_ms < l2.args.ts_ms
  /\ l2.args.mode = l1.args.mode
  /\ OfPair(d.facts, l1.args.record_id, l1.ret[1].field_id) =
       {FactRow(l1.args.record_id, l1.ret[1].field_id, l1.ret[1].value_id,
                l1.args.ts_ms)}

C2_Effect(l1, l2, d, e) ==
  LET r == l1.args.record_id
      fid == l1.ret[1].field_id
      vid == l1.ret[1].value_id
      at1 == FactRow(r, fid, vid, l1.args.ts_ms)
      at2 == FactRow(r, fid, vid, l2.args.ts_ms)
  IN /\ l2.ok
     /\ l2.args.mode = "event" =>
          /\ ~l2.ret[1].appended
          /\ e.facts = d.facts /\ e.current_facts = d.current_facts
          /\ OfPair(e.facts, r, fid) = {at1}
          /\ OfPair(e.current_facts, r, fid) = {at1}
     /\ l2.args.mode = "observe" =>
          /\ OfPair(e.facts, r, fid) = {at1, at2}
          /\ OfPair(e.current_facts, r, fid) = {at2}

\* C2: ingesting (r, f, v) at t1 and then at t2 > t1 in EventDriven mode
\* leaves exactly the fact at t1 for (r, f) and current_facts[r, f] = (v, t1),
\* the second item being skipped without a change to facts or current_facts;
\* the same two ingests in ObservationDriven mode leave two facts and
\* current_facts[r, f].ts = t2.
C2_EventSuppression ==
  [][C2_Case(last, last', db) => C2_Effect(last, last', db, db')]_vars

\* an EventDriven ingest has just skipped its item, the pair keeping its one
\* earlier fact
C2_Witness ==
  /\ SingleItem(last) /\ last.ok /\ last.args.mode = "event"
  /\ ~last.ret[1].appended
  /\ \E f \in db.facts :
       /\ OfPair(db.facts, last.args.record_id, last.ret[1].field_id) = {f}
       /\ OfPair(db.current_facts, last.args.record_id, last.ret[1].field_id) = {f}
       /\ f.value_id = last.ret[1].value_id
       /\ f.ts < last.args.ts_ms

\* two successive single-item ingests l1, l2 to one (record, field) pair:
\* l1 made (v1, t_new) current, l2 carries another value at t_old < t_new, a
\* time at which the pair has no fact
C3_Case(l1, l2, d) ==
  /\ SingleItem(l1) /\ l1.ok /\ l1.ret[1].appended
  /\ SingleItem(l2)
  /\ l2.args.record_id = l1.args.record_id
  /\ ItemOf(l2).field_name = l1.ret[1].item.field_name
  /\ ItemOf(l2).value # l1.ret[1].item.value
  /\ l2.args.ts_ms < l1.args.ts_ms
  /\ LET r == l1.args.record_id
         fid == l1.ret[1].field_id
     IN /\ OfPair(d.current_facts, r, fid) =
             {FactRow(r, fid, l1.ret[1].value_id, l1.args.ts_ms)}
        /\ \A f \in OfPair(d.facts, r, fid) : f.ts # l2.args.ts_ms

\* C3: ingesting (r, f, v1) at t_new and then (r, f, v2) at t_old < t_new,
\* v2 # v1, appends a fact row at t_old and leaves current_facts[r, f] equal
\* to (v1, t_new), in either mode.
C3_MonotonicCurrent ==
  [][C3_Case(last, last', db) =>
       /\ last'.ok /\ last'.ret[1].appended
       /\ last'.ret[1].field_id = last.ret[1].field_id
       /\ last'.ret[1].value_id # last.ret[1].value_id
       /\ db'.facts = db.facts \cup
            {FactRow(last.args.record_id, last.ret[1].field_id,
                     last'.ret[1].value_id, last'.args.ts_ms)}
       /\ db'.current_facts = db.current_facts]_vars

\* an ingest has just appended a fact whose pair keeps a current row of a
\* later time and another value
C3_Witness ==
  /\ SingleItem(last) /\ last.ok /\ last.ret[1].appended
  /\ \E c \in OfPair(db.current_facts, last.args.record_id, last.ret[1].field_id) :
       c.ts > last.args.ts_ms /\ c.value_id # last.ret[1].value_id
  /\ FactRow(last.args.record_id, last.ret[1].field_id, last.ret[1].value_id,
             last.args.ts_ms) \in db.facts

\* C4: an ingest that fails (fact primary-key conflict, value over its size
\* limit, more than 256 items) leaves records, fields, f_values, facts and
\* current_facts as they were when the call began, the rows of the items
\* before the failing one included, and reports an error.
C4_IngestAllOrNothing ==
  [][last'.cmd = "ingest" /\ ~last'.ok =>
       /\ Tables(db') = Tables(init_schema(db).db)
       /\ last'.err # ""]_vars

\* an ingest has just failed on its second item after its first item had
\* appended a fact, and that fact is not in the database
C4_Witness ==
  /\ last.cmd = "ingest" /\ ~last.ok
  /\ Len(last.ret) = 2 /\ last.ret[1].appended
  /\ \A f \in db.facts :
       ~(f.record_id = last.args.record_id /\ f.field_id = last.ret[1].field_id
         /\ f.ts = last.args.ts_ms)

\* C5 as stated: of two successive ingests that name the same (record,
\* field, ts) triple, whatever their values and modes, the second fails with
\* Duplicate and leaves the tables unchanged.
C5_SameTripleConflicts ==
  [][(/\ SingleItem(last) /\ last.ok
      /\ SingleItem(last')
      /\ last'.args.record_id = last.args.record_id
      /\ last'.args.ts_ms = last.args.ts_ms
      /\ ItemOf(last').field_name = ItemOf(last).field_name)
     => (/\ ~last'.ok /\ last'.err = "Duplicate"
         /\ Tables(db') = Tables(db))]_vars

\* C5: a single-item ingest whose value interns and whose (record, field,
\* ts) triple already has a fact row fails with Duplicate and leaves the
\* tables unchanged, unless the mode is EventDriven and the value is the
\* pair's current value: then the item is skipped and the call succeeds
\* without a change.
C5_ExistingTripleConflicts ==
  [][SingleItem(last') /\ last'.ret[1].value_id # 0 =>
       LET d0 == init_schema(db).db
           o == last'.ret[1]
           r == last'.args.record_id
           cur == get_current(d0, r, o.field_id)
           suppressed == /\ last'.args.mode = "event"
                         /\ cur # None /\ cur[1].first = o.value_id
       IN (\E f \in OfPair(d0.facts, r, o.field_id) : f.ts = last'.args.ts_ms) =>
            /\ Tables(db') = Tables(d0)
            /\ IF suppressed THEN last'.ok /\ ~o.appended
               ELSE ~last'.ok /\ last'.err = "Duplicate"]_vars

\* an EventDriven ingest has just failed with Duplicate on a triple that has
\* a fact of another value
C5_Witness ==
  /\ SingleItem(last) /\ ~last.ok /\ last.err = "Duplicate"
  /\ last.args.mode = "event"
  /\ \E f \in OfPair(db.facts, last.args.record_id, last.ret[1].field_id) :
       f.ts = last.args.ts_ms /\ f.value_id # last.ret[1].value_id

\* C10 as stated: on a database whose meta rows read tag_map = legacy_v02
\* and hash_format = legacy_no_sep, no command other than init changes the
\* tag_map or hash_format meta values.
C10_FormatFixed ==
  [][(/\ meta_get(db, "tag_map") = Some("legacy_v02")
      /\ meta_get(db, "hash_format") = Some("legacy_no_sep")
      /\ last'.cmd # "init")
     => (/\ meta_get(db', "tag_map") = meta_get(db, "tag_map")
         /\ meta_get(db', "hash_format") = meta_get(db, "hash_format"))]_vars

\* the single-token ingest commands of the model on record_id at ts_ms
SingleIngests(record_id, ts_ms) ==
  {IngestArgs(record_id, ts_ms, mode_s, tokens) :
     mode_s \in Modes, tokens \in {l \in TokenLists : Len(l) = 1}}

\* the database after the ingest command a has run on d
AfterIngest(d, a) == run_ingest(d, a.record_id, a.ts_ms, a.mode, a.tokens).db

\* the type tag and canonical bytes of the value value_id of d
ValueContent(d, value_id) ==
  LET r == CHOOSE r \in d.f_values : r.value_id = value_id
  IN <<r.type_tag, r.canon_text, r.canon_blob>>

\* the current_facts rows of d for record_id and the field named field_name,
\* each as its ts and the content of its value
CurrentOf(d, record_id, field_name) ==
  {[ts |-> c.ts, value |-> ValueContent(d, c.value_id)] :
     c \in {c \in d.current_facts :
              /\ c.record_id = record_id
              /\ \E f \in d.fields :
                   /\ f.field_id = c.field_id
                   /\ f.hash = canonicalize_field_hash(field_name)}}

\* C12 as stated: for two ingest calls that write to the same (record,
\* field, ts), possibly with different values, the current_facts row of the
\* pair is the same whichever of the two calls commits first.
C12_CommitOrderInsensitive ==
  \A record_id \in RecordIds, ts_ms \in Timestamps :
    \A a, b \in SingleIngests(record_id, ts_ms) :
      a.tokens[1].x.field = b.tokens[1].x.field =>
        CurrentOf(AfterIngest(AfterIngest(db, a), b), record_id, a.tokens[1].x.field)
          = CurrentOf(AfterIngest(AfterIngest(db, b), a), record_id,
                      a.tokens[1].x.field)

\* C13 as stated: when the ingests for a (record, field) pair arrive with
\* strictly increasing ts, then after each successful ingest call, in either
\* mode and for any values, the ts of the pair's current_facts row is the
\* greatest ts ingested so far.  Here: a first ingest at t1 to a fresh pair,
\* then a successful one at t2 > t1, after which the current ts is t2.
C13_GreatestIngestedTs ==
  [][(/\ SingleItem(last) /\ last.ok /\ last.ret[1].appended
      /\ SingleItem(last') /\ last'.ok
      /\ last'.args.record_id = last.args.record_id
      /\ ItemOf(last').field_name = ItemOf(last).field_name
      /\ last.args.ts_ms < last'.args.ts_ms
      /\ OfPair(db.facts, last.args.record_id, last.ret[1].field_id) =
           {FactRow(last.args.record_id, last.ret[1].field_id,
                    last.ret[1].value_id, last.args.ts_ms)})
     => \A c \in OfPair(db'.current_facts, last.args.record_id,
                        last.ret[1].field_id) :
          c.ts = last'.args.ts_ms]_vars

\* the item outcome o of a successful ingest of record_id at ts_ms in mode_s,
\* greater than every ts the facts of its pair had in d, left the database e
C13_ItemEffect(d, e, record_id, ts_ms, mode_s, o) ==
  LET cur == OfPair(e.current_facts, record_id, o.field_id)
      log == OfPair(e.facts, record_id, o.field_id)
  IN IF o.appended
     THEN /\ cur = {FactRow(record_id, o.field_id, o.value_id, ts_ms)}
          /\ cur \subseteq log
          /\ \A f \in log : f.ts <= ts_ms
     ELSE /\ mode_s = "event"
          /\ cur = OfPair(d.current_facts, record_id, o.field_id)
          /\ log = OfPair(d.facts, record_id, o.field_id)
          /\ Cardinality(cur) = 1
          /\ \A c \in cur :
               /\ c.value_id = o.value_id
               /\ c.ts < ts_ms
               /\ c \in log /\ \A f \in log : f.ts <= c.ts

\* C13: after a successful ingest call that names each field once and whose
\* ts is greater than every ts in the facts of a (record, field) pair it
\* names, the pair has one current_facts row, which is the fact of the
\* greatest ts in the pair's log: the fact the call appended at its own ts,
\* in either mode, except that an EventDriven call carrying the value that
\* is already current appends nothing and leaves the current row, with its
\* older ts, as it was.
C13_GreatestLoggedTs ==
  [][(/\ last'.cmd = "ingest" /\ last'.ok
      /\ \A i, j \in 1..Len(last'.ret) :
           last'.ret[i].field_id = last'.ret[j].field_id => i = j)
     => \A i \in 1..Len(last'.ret) :
          (\A f \in OfPair(db.facts, last'.args.record_id, last'.ret[i].field_id) :
             f.ts < last'.args.ts_ms)
          => C13_ItemEffect(db, db', last'.args.record_id, last'.args.ts_ms,
                            last'.args.mode, last'.ret[i])]_vars

\* an EventDriven ingest at a ts greater than every fact of its pair has just
\* succeeded without appending, and the current row of the pair is older
C13_Witness ==
  /\ SingleItem(last) /\ last.ok /\ ~last.ret[1].appended
  /\ last.args.mode = "event"
  /\ OfPair(db.current_facts, last.args.record_id, last.ret[1].field_id) # {}
  /\ \A f \in OfPair(db.facts, last.args.record_id, last.ret[1].field_id) :
       f.ts < last.args.ts_ms

\* C22: out-of-order observations do not demote the current view: a
\* successful ingest call whose ts is lower than the ts of an earlier
\* successful call for the same (record, field), here the call before it, in
\* any mix of modes, never changes the current_facts row of the pair.
C22_NoDemotion ==
  [][(/\ last.cmd = "ingest" /\ last.ok
      /\ last'.cmd = "ingest" /\ last'.ok
      /\ last'.args.record_id = last.args.record_id
      /\ last'.args.ts_ms < last.args.ts_ms)
     => \A i \in 1..Len(last.ret), j \in 1..Len(last'.ret) :
          last.ret[i].field_id = last'.ret[j].field_id
            => OfPair(db'.current_facts, last.args.record_id, last.ret[i].field_id)
                 = OfPair(db.current_facts, last.args.record_id,
                          last.ret[i].field_id)]_vars

(***************************************************************************)
(* Properties of the whole command surface                                 *)
(***************************************************************************)

\* the meta rows of d name the legacy tag map and hash format
LegacyFormat(d) ==
  /\ meta_get(d, "tag_map") = Some("legacy_v02")
  /\ meta_get(d, "hash_format") = Some("legacy_no_sep")

\* C11 as stated: on a database whose meta rows read tag_map = legacy_v02 and
\* hash_format = legacy_no_sep, an ingest command that carries a bytes or a
\* uuid value fails with UnsupportedInLegacy and stores no fact, and an
\* ingest of a text, int, float, bool or null value succeeds.
C11_LegacyRejectsBytesUuid ==
  [][(/\ LegacyFormat(db)
      /\ last'.cmd = "ingest"
      /\ last'.args.tokens \in TypedTokenLists)
     => IF last'.args.tokens[1].x.type \in {"bytes", "uuid"}
        THEN /\ ~last'.ok /\ last'.err = "UnsupportedInLegacy"
             /\ db'.facts = db.facts
        ELSE last'.ok]_vars

\* C14: no command, whether it succeeds or fails (ingest, rebuild_current,
\* init, current_eq, ever_eq, facts_window, snapshot), removes or changes a
\* committed row of facts, fields, f_values or records: each of these tables
\* after the command holds every row it held before.
C14_AppendOnly ==
  [][/\ db.facts \subseteq db'.facts
     /\ db.fields \subseteq db'.fields
     /\ db.f_values \subseteq db'.f_values
     /\ db.records \subseteq db'.records]_vars

\* an ingest naming the (record, field, ts) of a committed fact with another
\* value_id has just failed, and the fact is there with its old value_id
C14_Witness ==
  /\ last.cmd = "ingest" /\ ~last.ok /\ last.err = "Duplicate"
  /\ \E f \in db.facts, o \in {last.ret[Len(last.ret)]} :
       /\ f.record_id = last.args.record_id /\ f.ts = last.args.ts_ms
       /\ f.field_id = o.field_id /\ f.value_id # o.value_id

\* C15: in every committed state facts holds at most one row per
\* (record_id, field_id, ts) and current_facts at most one row per
\* (record_id, field_id), also after an ingest call that names one field
\* more than once.
C15_KeysUnique ==
  /\ \A f, g \in db.facts :
       (f.record_id = g.record_id /\ f.field_id = g.field_id /\ f.ts = g.ts)
       => f = g
  /\ \A c, e \in db.current_facts :
       (c.record_id = e.record_id /\ c.field_id = e.field_id) => c = e

\* an ingest call that names one field twice has just succeeded and has
\* appended a fact for that field
C15_Witness ==
  /\ last.cmd = "ingest" /\ last.ok
  /\ Len(last.ret) = 2
  /\ last.ret[1].field_id = last.ret[2].field_id
  /\ \E i \in 1..2 : last.ret[i].appended
  /\ \E f \in db.facts :
       /\ f.record_id = last.args.record_id /\ f.ts = last.args.ts_ms
       /\ f.field_id = last.ret[1].field_id

\* the command l carries a typed value whose canonicalization fails
CanonFails(l) ==
  \/ l.cmd = "ingest" /\ ~parse_items(l.args.tokens).ok
  \/ /\ l.cmd \in {"current_eq", "ever_eq"}
     /\ ~parse_cli_type_value(l.args.typed_value).ok

\* C16 as stated: when the canonicalization of a value supplied to ingest,
\* current_eq or ever_eq fails, no storage operation of the command has run,
\* and the database is as it was before the command.  Here for a database
\* that the init_schema every command starts with leaves as it is.
C16_CanonErrorsBeforeStorage ==
  [][(/\ CanonFails(last')
      /\ init_schema(db).db = db)
     => (~last'.ok /\ db' = db)]_vars

\* the query commands of run_felix
QueryCommands == {"current_eq", "ever_eq", "facts_window", "snapshot"}

\* C17 as stated: the commands current_eq, ever_eq, facts_window and
\* snapshot leave every stored table (meta, fields, f_values, records, facts,
\* current_facts) unchanged, on any database whose tables exist.
C17_QueriesReadOnly ==
  [][(last'.cmd \in QueryCommands /\ db.schema) => db' = db]_vars

\* the members of a store of the v0.3 format
FormatV03 == [tagmap_ |-> "FelixV03", hashfmt_ |-> "FelixV03Sep", null_value_id_ |-> 0]

\* the members of a store of the legacy format
FormatLegacy == [tagmap_ |-> "LegacyV02", hashfmt_ |-> "LegacyNoSep", null_value_id_ |-> 0]

\* the hashes under which a store of either format interns the value cv
ValueHashes(cv) ==
  {value_hash(FormatV03, cv)}
    \cup (IF type_tag_known("LegacyV02", cv.logical_type)
          THEN {value_hash(FormatLegacy, cv)} ELSE {})

\* no fact of d is about the field named field_name
FieldNeverIngested(d, field_name) ==
  \A f \in d.facts : \A r \in d.fields :
    r.field_id = f.field_id => r.hash # canonicalize_field_hash(field_name)

\* no fact of d holds the value cv
ValueNeverIngested(d, cv) ==
  \A f \in d.facts : \A r \in d.f_values :
    r.value_id = f.value_id => r.hash \notin ValueHashes(cv)

\* C18: current_eq and ever_eq with a field name or a value that was never
\* ingested (and a value that canonicalizes) succeed with an empty result;
\* afterwards the field and the value are interned, and facts and
\* current_facts are unchanged.
C18_UnknownIsEmpty ==
  [][(/\ last'.cmd \in {"current_eq", "ever_eq"}
      /\ parse_cli_type_value(last'.args.typed_value).ok
      /\ \/ FieldNeverIngested(db, last'.args.field)
         \/ ValueNeverIngested(db, parse_cli_type_value(last'.args.typed_value).cv))
     => (/\ last'.ok /\ last'.ret = <<>>
         /\ \E r \in db'.fields : r.hash = canonicalize_field_hash(last'.args.field)
         /\ \E r \in db'.f_values :
              r.hash = value_hash(FormatV03,
                                  parse_cli_type_value(last'.args.typed_value).cv)
         /\ db'.facts = db.facts
         /\ db'.current_facts = db.current_facts)]_vars

\* a current_eq or ever_eq for a field and a value no command had named has
\* just returned no row from a database that holds facts
C18_Witness ==
  /\ last.cmd \in {"current_eq", "ever_eq"} /\ last.ok /\ last.ret = <<>>
  /\ last.args.field = FieldC
  /\ last.args.typed_value = TypedValue("text", TextZ)
  /\ db.facts # {}
  /\ \E r \in db.fields : r.hash = canonicalize_field_hash(FieldC)

\* the canonical Null value
NullValue == CanonValue("Null", NullText, <<>>)

\* the value_ids of the rows of f_values that hold Null in the v0.3 format
NullIds(d) ==
  {r.value_id : r \in {v \in d.f_values : v.hash = value_hash(FormatV03, NullValue)}}

\* d was initialized: its tables exist, its meta keys name the v0.3 format
\* and its f_values holds Null
Initialized(d) ==
  /\ d.schema
  /\ [k |-> "tag_map", v |-> "felix_v03"] \in d.meta
  /\ [k |-> "hash_format", v |-> "felix_v03_sep"] \in d.meta
  /\ NullIds(d) # {}

\* C23: init leaves a database initialized; on an initialized database init
\* succeeds and leaves the whole database, every row of every table, as it
\* was, every command leaves the meta keys at felix_v03
\* and felix_v03_sep and the one Null row at its value_id, and every
\* successful ingest resolves its null-typed items to that value_id.
C23_InitIdempotent ==
  [][/\ (last'.cmd = "init" /\ last'.ok) => Initialized(db')
     /\ Initialized(db) =>
          /\ last'.cmd = "init" => (last'.ok /\ db' = db)
          /\ Initialized(db')
          /\ Cardinality(NullIds(db)) = 1 /\ NullIds(db') = NullIds(db)
          /\ (last'.cmd = "ingest" /\ last'.ok) =>
               \A j \in 1..Len(last'.ret) :
                 last'.ret[j].item.value.logical_type = "Null"
                   => last'.ret[j].value_id \in NullIds(db)]_vars

\* an ingest has just logged a null-typed item under the value_id of the
\* Null row, in a database that an init had initialized and that holds
\* other values
C23_Witness ==
  /\ last.cmd = "ingest" /\ last.ok
  /\ \E j \in 1..Len(last.ret) :
       /\ last.ret[j].item.value.logical_type = "Null"
       /\ last.ret[j].appended
       /\ last.ret[j].value_id \in NullIds(db)
       /\ \E f \in db.facts : f.value_id = last.ret[j].value_id
  /\ Initialized(db)
  /\ Cardinality(db.f_values) >= 2

(***************************************************************************)
(* Properties of several connections                                       *)
(***************************************************************************)

\* current_facts holds, for each (record, field) pair of facts, the fact of
\* the greatest ts, and nothing else
CurrentIsLatest(d) ==
  d.current_facts =
    {f \in d.facts : \A g \in OfPair(d.facts, f.record_id, f.field_id) : g.ts <= f.ts}

\* connection p runs the second statement of a rebuild, which succeeds
RebuildCompletes(p) ==
  /\ proc[p].pc = "deleted"
  /\ proc'[p].pc = "idle"
  /\ proc'[p].out.ok

\* C6: when rebuild_current_facts completes, current_facts holds exactly one
\* row per (record, field) pair of facts, the fact of the pair's maximum ts;
\* facts is as before; a second rebuild changes nothing; and where
\* current_facts was already so before the rebuild, it is the same after.
C6_RebuildEquivalence ==
  [][\A p \in Procs :
       RebuildCompletes(p) =>
         /\ CurrentIsLatest(db')
         /\ db'.facts = db.facts
         /\ rebuild_current_facts(db').ok
         /\ rebuild_current_facts(db').db = db'
         /\ (CurrentIsLatest(proc[p].base) /\ proc[p].base.facts = db.facts
               => db'.current_facts = proc[p].base.current_facts)]_vars

\* a rebuild has completed on a table in which a pair has two facts, after
\* the other connection was killed in the middle of its own rebuild
C6_Witness ==
  \E p, q \in Procs :
    /\ proc[p].pc = "idle" /\ proc[p].out.cmd = "rebuild_current" /\ proc[p].out.ok
    /\ proc[q].out.cmd = "rebuild_current" /\ proc[q].out.err = "Killed"
    /\ \E f, g \in db.facts :
         f.record_id = g.record_id /\ f.field_id = g.field_id /\ f.ts < g.ts
    /\ CurrentIsLatest(db)

\* C7 as stated: the truncate and the repopulate of a rebuild are one atomic
\* step, so that no committed state has a (record, field) pair with facts
\* and no row in current_facts.
C7_RebuildAtomic ==
  \A f \in db.facts : OfPair(db.current_facts, f.record_id, f.field_id) # {}

\* the fact rows an ingest call has appended
CallRows(o) ==
  {FactRow(o.args.record_id, o.ret[i].field_id, o.ret[i].value_id, o.args.ts_ms) :
     i \in {j \in 1..Len(o.ret) : o.ret[j].appended}}

\* C8: a query sees none or all of the fact rows of an ingest call, and none
\* of the facts and current_facts rows of a call that has not committed.
C8_AtomicVisibility ==
  \A p \in Procs :
    LET q == proc[p] IN
    /\ q.out.cmd = "ingest" /\ (q.pc = "tx" \/ q.out.ok) =>
         \/ seen.facts \cap CallRows(q.out) = {}
         \/ CallRows(q.out) \subseteq seen.facts
    /\ q.pc = "tx" =>
         /\ seen.facts \cap (q.work.facts \ q.base.facts) = {}
         /\ seen.current_facts \cap (q.work.current_facts \ q.base.current_facts) = {}

\* the query has read while a connection was between the first and the second
\* item of its ingest, the first item having appended a fact
C8_Witness ==
  \E p \in Procs :
    /\ proc[p].pc = "tx" /\ proc[p].i = 2 /\ proc[p].out.ret[1].appended
    /\ seen.n = 1 /\ seen.during = p
    /\ seen.facts = proc[p].base.facts

\* the value-interning attempts of the call of connection p: the value and
\* the id get_or_create_value returned for it
Attempts(p) ==
  {[value |-> proc[p].out.ret[i].item.value,
    value_id |-> proc[p].out.ret[i].value_id] :
     i \in {j \in 1..Len(proc[p].out.ret) : proc[p].out.ret[j].value_id # 0}}

\* C9 as stated: all interning attempts with the same logical type and
\* canonical bytes, by whatever connection, returned the same value_id.
C9_SameValueSameId ==
  \A p, q \in Procs :
    \A a \in Attempts(p), b \in Attempts(q) :
      a.value = b.value => a.value_id = b.value_id

\* the call of connection p has committed
Committed(p) == proc[p].pc = "idle" /\ proc[p].out.ok /\ proc[p].out.cmd = "ingest"

\* C9: f_values holds at most one row per hash and per id; every interning
\* attempt of a committed call returned the id of the row of f_values that
\* holds its logical type and canonical bytes, so that committed attempts
\* with the same type and bytes agree on the id, text given with outer
\* whitespace and its trimmed form included.
C9_CommittedSameId ==
  /\ \A r1, r2 \in db.f_values :
       r1.hash = r2.hash \/ r1.value_id = r2.value_id => r1 = r2
  /\ \A p \in Procs :
       Committed(p) =>
         \A a \in Attempts(p) :
           \E r \in db.f_values :
             /\ r.value_id = a.value_id
             /\ r.hash = sha256_typed("FelixV03", "FelixV03Sep",
                                      a.value.logical_type, a.value.canon_text)
  /\ \A p, q \in Procs :
       Committed(p) /\ Committed(q) =>
         \A a \in Attempts(p), b \in Attempts(q) :
           a.value = b.value => a.value_id = b.value_id

\* a call that gave padded and trimmed text one id has committed, while the
\* id an attempt of a rolled back call returned now belongs to another value
C9_Witness ==
  \E p, q \in Procs :
    /\ Committed(p)
    /\ Len(proc[p].out.ret) = 2
    /\ proc[p].out.args.tokens[1].x.value # proc[p].out.args.tokens[2].x.value
    /\ proc[p].out.ret[1].value_id = proc[p].out.ret[2].value_id
    /\ proc[q].pc = "idle" /\ ~proc[q].out.ok
    /\ \E a \in Attempts(q) :
         \E r \in db.f_values :
           /\ r.value_id = a.value_id
           /\ r.hash # sha256_typed("FelixV03", "FelixV03Sep",
                                    a.value.logical_type, a.value.canon_text)


(***************************************************************************)
(* The two time queries of FelixSqlite, query_facts_window and snapshot_at, *)
(* on the fact tables that a few observe-mode ingests leave behind: facts   *)
(* of two records and two fields at three timestamps, in any order of       *)
(* arrival.                                                                 *)
(***************************************************************************)

\* bound of the model: the ingests that built the fact table
MaxRows == 3

\* the optional record filter of query_facts_window
RecordFilters == {None} \cup {Some(record_id) : record_id \in RecordIds}

\* the ingest calls that build the fact tables: one item each
QueryIngests ==
  {[record_id |-> record_id, ts_ms |-> ts_ms,
    items |-> <<One(IngestItem(field_name, CanonValue("Text", text, <<>>)))>>] :
     record_id \in RecordIds, ts_ms \in Timestamps,
     field_name \in {FieldA, FieldB}, text \in {TextX}}

\* the databases one more observe-mode ingest makes of the databases T; an
\* ingest that fails leaves its database as it was
Ingested(T) ==
  T \cup {ingest_items(d, FelixSqlite(d), c.record_id, c.ts_ms,
                       "ObservationDriven", c.items).db :
            d \in T, c \in QueryIngests}

\* the databases after init_schema and at most n ingests
RECURSIVE FactTables(_)
FactTables(n) ==
  IF n = 0 THEN {init_schema(EmptyDb).db} ELSE Ingested(FactTables(n - 1))

InitQuery ==
  /\ db \in FactTables(MaxRows)
  /\ last = NoCommand
  /\ Sequential

\* a query has returned the vector ret
Returned(cmd, args, ret) ==
  /\ last' = [cmd |-> cmd, args |-> args, ok |-> TRUE, err |-> "", ret |-> ret]
  /\ UNCHANGED <<db, lock, proc, seen>>

QueryFactsWindow(t1, t2, record_filter) ==
  \E facts \in query_facts_window(db, t1, t2, record_filter) :
    Returned("query_facts_window",
             [t1 |-> t1, t2 |-> t2, record_filter |-> record_filter], facts)

SnapshotAt(record_id, t) ==
  \E rows \in snapshot_at(db, record_id, t) :
    Returned("snapshot_at", [record_id |-> record_id, t |-> t], rows)

NextQuery ==
  \/ \E t1 \in Timestamps, t2 \in Timestamps, record_filter \in RecordFilters :
        QueryFactsWindow(t1, t2, record_filter)
  \/ \E record_id \in RecordIds, t \in Timestamps : SnapshotAt(record_id, t)

SpecQuery == InitQuery /\ [][NextQuery]_vars

(***************************************************************************)
(* Properties of the time queries                                          *)
(***************************************************************************)

\* the elements of the vector o
Elems(o) == {o[i] : i \in 1..Len(o)}

\* C19: query_facts_window(t1, t2) returns exactly the fact rows with
\* t1 <= ts <= t2, both ends inclusive and none when t1 > t2, each once, in
\* non-decreasing order of ts; with a record filter, exactly those of them
\* that belong to that record.
C19_WindowInclusive ==
  last.cmd = "query_facts_window" =>
    /\ Elems(last.ret) =
         {f \in db.facts :
            /\ last.args.t1 <= f.ts /\ f.ts <= last.args.t2
            /\ last.args.record_filter # None
                 => f.record_id = last.args.record_filter[1]}
    /\ \A i, j \in 1..Len(last.ret) : last.ret[i] = last.ret[j] => i = j
    /\ \A i, j \in 1..Len(last.ret) : i < j => last.ret[i].ts <= last.ret[j].ts
    /\ last.args.t1 > last.args.t2 => last.ret = <<>>

\* a window with a record filter has returned two facts, one at t1 and one at
\* t2 > t1, from a table that holds a third fact it left out
C19_Witness ==
  /\ last.cmd = "query_facts_window"
  /\ last.args.record_filter # None
  /\ last.args.t1 < last.args.t2
  /\ Len(last.ret) = 2
  /\ last.ret[1].ts = last.args.t1 /\ last.ret[2].ts = last.args.t2
  /\ Cardinality(db.facts) = 3

\* C20: snapshot_at(record, t) returns, for every field of that record with
\* a fact at ts <= t, exactly one row, the fact of that record and field with
\* the greatest ts <= t; it returns no row for a field whose facts all have
\* ts > t and no row of another record, so a t older than every fact of the
\* record yields no row.
C20_SnapshotLatest ==
  last.cmd = "snapshot_at" =>
    /\ \A f \in db.facts :
         (f.record_id = last.args.record_id /\ f.ts <= last.args.t)
           => /\ Cardinality({i \in 1..Len(last.ret) :
                                last.ret[i].field_id = f.field_id}) = 1
              /\ \E i \in 1..Len(last.ret) :
                   /\ last.ret[i].field_id = f.field_id
                   /\ last.ret[i].ts >= f.ts
    /\ \A i \in 1..Len(last.ret) :
         /\ last.ret[i] \in db.facts
         /\ last.ret[i].record_id = last.args.record_id
         /\ last.ret[i].ts <= last.args.t
    /\ (\A f \in db.facts : f.record_id = last.args.record_id => f.ts > last.args.t)
         => last.ret = <<>>

\* a snapshot has returned, for a field that has an older and a newer fact,
\* the fact in between, the newer being later than t
C20_Witness ==
  /\ last.cmd = "snapshot_at"
  /\ Len(last.ret) = 1
  /\ \E f, g \in db.facts :
       /\ f.record_id = last.args.record_id /\ g.record_id = last.args.record_id
       /\ f.field_id = last.ret[1].field_id /\ g.field_id = last.ret[1].field_id
       /\ f.ts < last.ret[1].ts /\ last.ret[1].ts <= last.args.t
       /\ last.args.t < g.ts

(***************************************************************************)
(* The two entry points of canonicalization, each applied to a type and a  *)
(* value: the parsed JSON value v of an NDJSON line for the structured     *)
(* entry point, the text of v for the raw-text entry point.                *)
(***************************************************************************)

\* the text a command-line token carries for the JSON value v
text_form(v) ==
  CASE v.is = "null" -> NullText
    [] v.is = "boolean" -> IF v.b THEN TrueText ELSE FalseText
    [] v.is \in {"number_integer", "number_unsigned"} ->
         Str((IF v.neg THEN <<45>> ELSE <<>>) \o v.text)
    [] v.is = "number_float" -> Str(v.text)
    [] v.is = "string" -> v.s

\* JSON integers: 0, -0, 7, -5, and those around the ends of int64_t and
\* uint64_t
JsonSmallIntegers ==
  { json_parse_integer(FALSE, <<48>>), json_parse_integer(TRUE, <<48>>),
    json_parse_integer(FALSE, <<55>>), json_parse_integer(TRUE, <<53>>) }
JsonLargeIntegers ==
  { json_parse_integer(FALSE, Int64MaxDigits),
    json_parse_integer(FALSE, Int64MinDigits),
    json_parse_integer(TRUE, Int64MinDigits),
    json_parse_integer(TRUE, <<57, 50, 50, 51, 51, 55, 50, 48, 51, 54, 56, 53,
                               52, 55, 55, 53, 56, 48, 57>>),
    json_parse_integer(FALSE, Uint64MaxDigits),
    json_parse_integer(FALSE, TwoPow64Digits) }

\* texts of integers and of what is none: "5", "+5", " 7 ", "007", "-0",
\* "1 2", "5x", "-", "", the digits of 2^63
IntTexts ==
  { Str(<<53>>), Str(<<43, 53>>), Str(<<32, 55, 32>>), Str(<<48, 48, 55>>),
    Str(<<45, 48>>), Str(<<49, 32, 50>>), Str(<<53, 120>>), Str(<<45>>),
    <<>>, Str(Int64MinDigits) }

\* texts with white space at their ends and inside: "x", " x\t", "\r\nx",
\* VT "x", "x" FF, "a b", "a" VT "b", e U+0301, U+00E9
TrimTexts ==
  { TextX, Str(<<32, 120, 9>>), Str(<<13, 10, 120>>), Str(<<11, 120>>),
    Str(<<120, 12>>), Str(<<97, 32, 98>>), Str(<<97, 11, 98>>),
    Str(<<101, 204, 129>>), Str(<<195, 169>>) }

\* for each type, the JSON values the entry points are applied to
CanonValues(t) ==
  CASE t = "Null" -> {JsonNull, JsonString(TextX)}
    [] t = "Bool" ->
         {JsonBoolean(TRUE), JsonBoolean(FALSE), JsonNull, JsonString(TrueText),
          JsonString(Str(<<32, 116, 114, 117, 101, 32>>)), JsonString(TextX)}
    [] t = "Int" ->
         JsonSmallIntegers \cup JsonLargeIntegers \cup {JsonBoolean(TRUE)}
           \cup {JsonString(x) : x \in IntTexts}
    [] t = "Float" ->
         JsonSmallIntegers
           \cup {JsonString(x) : x \in {InfText, PlusInfText, MinusInfText,
                                        Str(<<43, 48, 55>>), <<>>} \cup NanTexts}
    [] t = "Text" -> {JsonNull} \cup {JsonString(x) : x \in TrimTexts}
    [] t = "Uuid" ->
         {JsonString(UuidUpperA), JsonString(<<Run(32, 1)>> \o UuidUpperA),
          JsonString(TextX), JsonNull}
    [] t = "Bytes" ->
         {JsonString(Base64X), JsonString(Str(<<101, 65, 32, 61, 61>>)),
          JsonString(TextX), JsonString(<<>>), JsonNull}
    [] t = "JsonReserved" -> {JsonNull}

\* the pairs of a type and a value
CanonInputs == UNION {{[t |-> t, v |-> v] : v \in CanonValues(t)} : t \in LogicalType}

InitCanon ==
  /\ db = EmptyDb
  /\ last \in {[cmd |-> "none", args |-> a, ok |-> TRUE, err |-> "",
                ret |-> CanonValue("Null", <<>>, <<>>)] :
                 a \in CanonInputs}
  /\ Sequential

\* an entry point has returned or thrown: r is its result
Canonicalized(cmd, r) ==
  /\ last' = [cmd |-> cmd, args |-> last.args, ok |-> r.ok, err |-> r.err,
              ret |-> r.cv]
  /\ UNCHANGED <<db, lock, proc, seen>>

CanonicalizeJson ==
  /\ Canonicalized("canonicalize_json",
                   canonicalize_typed_value_json(last.args.t, last.args.v))

CanonicalizeRaw ==
  /\ Canonicalized("canonicalize_raw",
                   canonicalize_typed_value(last.args.t, text_form(last.args.v)))

NextCanon == CanonicalizeJson \/ CanonicalizeRaw

SpecCanon == InitCanon /\ [][NextCanon]_vars

(***************************************************************************)
(* Properties of canonicalization                                          *)
(***************************************************************************)

\* the JSON value v is a value of the type t
TypedJson(t, v) ==
  CASE t = "Null" -> v.is = "null"
    [] t = "Bool" -> v.is = "boolean"
    [] t = "Int" -> v.is \in {"number_integer", "number_unsigned"}
    [] t = "Float" -> v.is \in {"number_integer", "number_unsigned", "number_float"}
    [] t \in {"Text", "Uuid", "Bytes"} -> v.is = "string"
    [] t = "JsonReserved" -> FALSE

\* C21: for every supported type and every value of it, the structured entry
\* point and the raw-text entry point, applied to the value and to its text,
\* both accept or both reject, and where they accept they yield the same
\* canonical value.
C21_CanonicalRoundTrip ==
  (last.cmd = "canonicalize_json" /\ TypedJson(last.args.t, last.args.v))
    => LET raw == canonicalize_typed_value(last.args.t, text_form(last.args.v))
       IN /\ last.ok = raw.ok
          /\ last.ok => last.ret = raw.cv

RECURSIVE DropLeadingOf(_, _)
\* s without its leading bytes that are in ws
DropLeadingOf(s, ws) ==
  IF s # <<>> /\ Head(s).b \in ws THEN DropLeadingOf(Tail(s), ws) ELSE s

RECURSIVE DropTrailingOf(_, _)
\* s without its trailing bytes that are in ws
DropTrailingOf(s, ws) ==
  IF s # <<>> /\ s[Len(s)].b \in ws
  THEN DropTrailingOf(SubSeq(s, 1, Len(s) - 1), ws) ELSE s

\* space, tab, carriage return and line feed
FourWhitespace == {32, 9, 13, 10}

\* C27: trim removes exactly the leading and the trailing run of space, tab,
\* carriage return and line feed: the canonical text of a text value is the
\* NFC form of the value without those two runs, every other byte kept.
C27_TrimFourBytes ==
  (last.cmd = "canonicalize_raw" /\ last.args.t = "Text"
    /\ last.args.v.is = "string" /\ last.ok)
    => last.ret.canon_text =
         nfc_normalize_utf8(
           DropTrailingOf(DropLeadingOf(last.args.v.s, FourWhitespace),
                          FourWhitespace))

\* the bytes bs are an optional '-' followed by one or more decimal digits
\* whose value fits int64_t
SignedDecimal(bs) ==
  /\ bs # <<>>
  /\ bs[1] # 43
  /\ stoll(bs).ok /\ stoll(bs).idx = Len(bs)

\* C28: the raw-text entry point accepts as int, after outer trim, exactly the
\* strings made of an optional '-' and one or more decimal digits whose value
\* fits a signed 64-bit integer, and yields the minimal decimal rendering;
\* every other string, one with a leading '+' included, fails with BadInt.
C28_RawIntSyntax ==
  (last.cmd = "canonicalize_raw" /\ last.args.t = "Int"
    /\ last.args.v.is = "string")
    => IF SignedDecimal(Bytes(trim_copy(last.args.v.s)))
       THEN /\ last.ok
            /\ last.ret.canon_text = Str(stoll(Bytes(trim_copy(last.args.v.s))).text)
       ELSE ~last.ok /\ last.err = "BadInt"

(***************************************************************************)
(* A store opened on a database file whose meta table other versions of    *)
(* the program may have written, and the interning of field names in it.   *)
(***************************************************************************)

\* the values of a meta key: absent, the v0.3 name, the legacy name, another
TagMapValues == {None, Some("felix_v03"), Some("legacy_v02"), Some("v9")}
HashFormatValues == {None, Some("felix_v03_sep"), Some("legacy_no_sep"), Some("v9")}

\* the meta rows that hold tv under tag_map and hv under hash_format
MetaRows(tv, hv) ==
  {[k |-> "tag_map", v |-> tv[i]] : i \in 1..Len(tv)}
    \cup {[k |-> "hash_format", v |-> hv[i]] : i \in 1..Len(hv)}

\* field names: "a", " a" TAB, "A", e U+0301, U+00E9, 256 bytes, 256 bytes
\* and a space, a space and 255 bytes and a space, 257 bytes, a lone 0xC3
FieldNames ==
  { FieldA, Str(<<32, 97, 9>>), Str(<<65>>), Str(<<101, 204, 129>>),
    Str(<<195, 169>>), <<Run(98, MaxFieldNameBytes)>>,
    <<Run(98, MaxFieldNameBytes), Run(32, 1)>>,
    <<Run(32, 1), Run(98, MaxFieldNameBytes - 1), Run(32, 1)>>,
    <<Run(98, MaxFieldNameBytes + 1)>>, Str(<<195>>) }

InitStore ==
  /\ db \in {[EmptyDb EXCEPT !.schema = TRUE, !.meta = MetaRows(tv, hv)] :
               tv \in TagMapValues, hv \in HashFormatValues}
  /\ last = NoCommand
  /\ Sequential

\* FelixSqlite::FelixSqlite: a store is opened on the file
Open ==
  /\ last' = [cmd |-> "open", args |-> <<>>, ok |-> TRUE, err |-> "",
              ret |-> FelixSqlite(db)]
  /\ UNCHANGED <<db, lock, proc, seen>>

\* get_or_create_field outside a transaction
GetOrCreateField(field_name) ==
  /\ Apply("get_or_create_field", [field_name |-> field_name],
           get_or_create_field(db, field_name))

NextStore ==
  \/ Open
  \/ \E field_name \in FieldNames : GetOrCreateField(field_name)

SpecStore == InitStore /\ [][NextStore]_vars

(***************************************************************************)
(* Properties of the store                                                 *)
(***************************************************************************)

\* C24: a store opened on a database whose meta table lacks the tag_map key
\* or the hash_format key is legacy on both axes; when both keys are present
\* its tag map is v0.3 exactly if tag_map is felix_v03 and its hash format is
\* the separator format exactly if hash_format is felix_v03_sep, each axis
\* by its own key.
C24_FormatFromMeta ==
  last.cmd = "open" =>
    IF meta_get(db, "tag_map") = None \/ meta_get(db, "hash_format") = None
    THEN last.ret.tagmap_ = "LegacyV02" /\ last.ret.hashfmt_ = "LegacyNoSep"
    ELSE /\ last.ret.tagmap_ = "FelixV03" <=> meta_get(db, "tag_map") = Some("felix_v03")
         /\ last.ret.tagmap_ \in {"FelixV03", "LegacyV02"}
         /\ last.ret.hashfmt_ = "FelixV03Sep"
              <=> meta_get(db, "hash_format") = Some("felix_v03_sep")
         /\ last.ret.hashfmt_ \in {"FelixV03Sep", "LegacyNoSep"}

\* a store was opened on a database whose keys disagree: v0.3 tags, legacy
\* hashing
C24_Witness ==
  /\ last.cmd = "open"
  /\ meta_get(db, "tag_map") = Some("felix_v03")
  /\ meta_get(db, "hash_format") = Some("legacy_no_sep")
  /\ last.ret.tagmap_ = "FelixV03" /\ last.ret.hashfmt_ = "LegacyNoSep"

\* the canonical form of a field name
CanonicalName(field_name) == nfc_normalize_utf8(trim_copy(field_name))

\* C25: the fields table holds one row for each canonical name and one
\* field_id for each row; a field name resolves to the field_id of the row of
\* its canonical form, so names of one canonical form resolve to one id and
\* names of different canonical forms, those that differ in letter case
\* included, to different ids; and no command changes or removes a row.
C25_FieldInterning ==
  /\ [](/\ \A r1, r2 \in db.fields :
             (r1.name_canon = r2.name_canon \/ r1.field_id = r2.field_id)
               => r1 = r2
        /\ (last.cmd = "get_or_create_field" /\ last.ok)
             => \E r \in db.fields :
                  /\ r.field_id = last.ret
                  /\ r.name_canon = CanonicalName(last.args.field_name))
  /\ [][db.fields \subseteq db'.fields]_vars

\* a name with outer white space has just resolved to the id of a row that
\* was there before, in a table that also holds the name in capitals and
\* the composed form of e U+0301
C25_Witness ==
  /\ last.cmd = "get_or_create_field" /\ last.ok
  /\ last.args.field_name = Str(<<32, 97, 9>>)
  /\ \E r1, r2, r3 \in db.fields :
       /\ r1.field_id = last.ret /\ r1.name_canon = FieldA
       /\ r2.name_canon = Str(<<65>>) /\ r2.field_id < r1.field_id
       /\ r3.name_canon = Str(<<195, 169>>) /\ r3.field_id > r1.field_id

\* C26: a field name (of well-formed UTF-8) is accepted if and only if its
\* canonical form, after outer trim and NFC, is at most 256 bytes, whatever
\* the length of the raw name; a canonical form of 257 bytes or more fails
\* with FieldTooLong.
C26_CanonicalLength ==
  (last.cmd = "get_or_create_field" /\ require_utf8(last.args.field_name))
    => IF Size(CanonicalName(last.args.field_name)) <= MaxFieldNameBytes
       THEN last.ok
       ELSE ~last.ok /\ last.err = "FieldTooLong"

(***************************************************************************)
(* Properties of the queries on the databases that ingests and rebuilds    *)
(* leave behind                                                            *)
(***************************************************************************)

\* C29: in every state reached by ingests, for every record r and every t
\* not before the latest fact of r, each vector snapshot_at(r, t) may return
\* holds exactly the current_facts rows of r, each once.
C29_SnapshotIsCurrent ==
  \A record_id \in RecordIds, t \in Timestamps :
    (\A f \in db.facts : f.record_id = record_id => f.ts <= t)
      => \A rows \in snapshot_at(db, record_id, t) :
           /\ Elems(rows) = {c \in db.current_facts : c.record_id = record_id}
           /\ Len(rows) = Cardinality(Elems(rows))

\* an ingest has just logged a fact older than the current row of its pair,
\* and the snapshot of its record at the latest time is that current row
C29_Witness ==
  /\ last.cmd = "ingest" /\ last.ok
  /\ \E c \in db.current_facts :
       /\ c.record_id = last.args.record_id
       /\ c.ts > last.args.ts_ms
       /\ FactRow(c.record_id, c.field_id, last.ret[1].value_id, last.args.ts_ms)
            \in db.facts
       /\ snapshot_at(db, c.record_id, c.ts) = {<<c>>}

\* C30: in every state reached by ingests and rebuilds, for every field and
\* value, the record ids query_current_eq returns are among those
\* query_ever_eq returns, and query_ever_eq returns no record id twice.
C30_CurrentWithinEver ==
  \A f \in db.fields, v \in db.f_values :
    \A ever \in query_ever_eq(db, f.field_id, v.value_id) :
      /\ \A i, j \in 1..Len(ever) : ever[i] = ever[j] => i = j
      /\ \A cur \in query_current_eq(db, f.field_id, v.value_id) :
           Elems(cur) \subseteq Elems(ever)

\* a record holds two facts of one field and one value, the later of them
\* current, and both queries return that record once
C30_Witness ==
  \E f1, f2 \in db.facts :
    /\ f1.record_id = f2.record_id /\ f1.field_id = f2.field_id
    /\ f1.value_id = f2.value_id /\ f1.ts < f2.ts
    /\ f2 \in db.current_facts
    /\ query_ever_eq(db, f1.field_id, f1.value_id) = {<<f1.record_id>>}
    /\ query_current_eq(db, f1.field_id, f1.value_id) = {<<f1.record_id>>}

(***************************************************************************)
(* The interning of values in a store opened on a database file of any of  *)
(* the formats, the format staying the one the store was opened with.      *)
(***************************************************************************)

\* bound of the model: values are interned while the table of values holds
\* fewer rows than this
MaxValues == 3

\* "1" and "1" followed by a NUL byte
TextOne == Str(<<49>>)
TextOneNul == Str(<<49, 0>>)

\* canonical values, several of them with the bytes of a value of another
\* type: the int 1, the texts "1" and "1" NUL, the Null value, the text
\* "null", the bool true, the text "true", the bytes x, the text "x"
InternedValues ==
  { CanonValue("Int", TextOne, <<>>), CanonValue("Text", TextOne, <<>>),
    CanonValue("Text", TextOneNul, <<>>),
    CanonValue("Null", NullText, <<>>), CanonValue("Text", NullText, <<>>),
    CanonValue("Bool", TrueText, <<>>), CanonValue("Text", TrueText, <<>>),
    CanonValue("Bytes", <<>>, TextX), CanonValue("Text", TextX, <<>>) }

\* get_or_create_value on the store opened on the file
GetOrCreateValue(cv) ==
  /\ Cardinality(db.f_values) < MaxValues
  /\ Apply("get_or_create_value", [cv |-> cv],
           get_or_create_value(db, FelixSqlite(db), cv))

NextValue == \E cv \in InternedValues : GetOrCreateValue(cv)

SpecValue == InitStore /\ [][NextValue]_vars

(***************************************************************************)
(* Properties of the interning of values                                   *)
(***************************************************************************)

\* the canonical bytes of a canonical value
CanonBytes(cv) ==
  IF cv.logical_type = "Bytes" THEN cv.canon_blob ELSE cv.canon_text

\* the value cv was interned as the row r by a store whose tag map is v
InternedAs(v, cv, r) ==
  /\ logical_type_from_tag(v, r.type_tag) = cv.logical_type
  /\ r.hash = sha256_typed(v, FelixSqlite(db).hashfmt_, cv.logical_type,
                           CanonBytes(cv))

\* C31: under one active format, every value_id names one row of f_values,
\* rows are never changed or removed, and the id a successful
\* get_or_create_value returns names a row of the logical type and the
\* canonical bytes of the value it was given; so two interned values share
\* a value_id only if their types and canonical bytes are equal, and values
\* of different types with identical canonical bytes get different ids.
C31_ValueIdInjective ==
  /\ [](\A r, s \in db.f_values : r.value_id = s.value_id => r = s)
  /\ [](\A r, s \in db.f_values :
          r.value_id = s.value_id
            => \A cv, cw \in InternedValues :
                 (/\ InternedAs(FelixSqlite(db).tagmap_, cv, r)
                  /\ InternedAs(FelixSqlite(db).tagmap_, cw, s)) => cv = cw)
  /\ []((last.cmd = "get_or_create_value" /\ last.ok)
          => \E r \in db.f_values :
               /\ r.value_id = last.ret
               /\ InternedAs(FelixSqlite(db).tagmap_, last.args.cv, r))
  /\ [][db.f_values \subseteq db'.f_values]_vars

\* the int 1 and the text "1" are interned, the text "null" has just been
\* interned, and the three hold three ids
C31_Witness ==
  /\ last.cmd = "get_or_create_value" /\ last.ok
  /\ last.args.cv = CanonValue("Text", NullText, <<>>)
  /\ \E r, s \in db.f_values :
       /\ InternedAs(FelixSqlite(db).tagmap_, CanonValue("Int", TextOne, <<>>), r)
       /\ InternedAs(FelixSqlite(db).tagmap_, CanonValue("Text", TextOne, <<>>), s)
       /\ Cardinality({r.value_id, s.value_id, last.ret}) = 3

(***************************************************************************)
(* The command ingest_ndjson, one file after the other, on a new file or   *)
(* on a legacy database.                                                   *)
(***************************************************************************)

\* the member of fields named key that holds the value v of type t
Member(key, t, v) ==
  [key |-> key, value |-> JsonObject([t |-> JsonString(t), v |-> v])]

\* the line of bytes "{}" after pad that parses to the object of record_id,
\* ts_ms, mode and fields, mode left out when it is None
DocLine(pad, record_id, ts_ms, mode, items) ==
  Line(Cat(pad, Str(<<123, 125>>)),
       Some(JsonObject(
         IF mode = None
         THEN [record_id |-> json_parse_integer(FALSE, <<48 + record_id>>),
               ts_ms |-> json_parse_integer(FALSE, <<48 + ts_ms>>),
               fields |-> JsonFields(items)]
         ELSE [record_id |-> json_parse_integer(FALSE, <<48 + record_id>>),
               ts_ms |-> json_parse_integer(FALSE, <<48 + ts_ms>>),
               mode |-> JsonString(mode[1]),
               fields |-> JsonFields(items)])))

\* lines that apply on an empty database: a=x of record 1 at 1 without mode,
\* at 2 in either mode, at 3 without mode after a carriage return
LineX1 == DocLine(<<>>, 1, 1, None, <<Member(FieldA, "text", JsonString(TextX))>>)
LineX2Observe ==
  DocLine(<<>>, 1, 2, Some("observe"), <<Member(FieldA, "text", JsonString(TextX))>>)
LineX2Event ==
  DocLine(<<>>, 1, 2, Some("event"), <<Member(FieldA, "text", JsonString(TextX))>>)
LineX3 ==
  DocLine(Str(<<13>>), 1, 3, None, <<Member(FieldA, "text", JsonString(TextX))>>)

\* a=y of record 1 at 1, which is a duplicate after LineX1
LineY1 == DocLine(<<>>, 1, 1, None, <<Member(FieldA, "text", JsonString(TextY))>>)

\* lines of white space: a space and a tab, and one over the line limit
LineBlank == Line(Str(<<32, 9>>), None)
LineTooLarge == Line(<<Run(32, MaxLineBytes + 1)>>, None)

\* lines that fail on every database: "{", the document null, a line
\* without fields, a mode that is none, a bool that is a string, a text over
\* the size limit after a member that appends a fact
LineGarbage == Line(Str(<<123>>), None)
LineNull == Line(NullText, Some(JsonNull))
LineNoFields ==
  Line(Str(<<123, 125>>),
       Some(JsonObject([record_id |-> json_parse_integer(FALSE, <<49>>),
                        ts_ms |-> json_parse_integer(FALSE, <<49>>)])))
LineBadMode ==
  DocLine(<<>>, 1, 1, Some("always"), <<Member(FieldA, "text", JsonString(TextX))>>)
LineBadBool ==
  DocLine(<<>>, 1, 1, None, <<Member(FieldB, "text", JsonString(TextY)),
                              Member(FieldC, "bool", JsonString(TextX))>>)
LineBigText ==
  DocLine(<<>>, 2, 1, None,
          <<Member(FieldA, "text", JsonString(TextY)),
            Member(FieldB, "text", JsonString(<<Run(120, MaxTextBytes + 1)>>))>>)

\* a record_id that is a string, and a member of type text without v
LineStringId ==
  Line(Str(<<123, 125>>),
       Some(JsonObject([record_id |-> JsonString(TextOne),
                        ts_ms |-> json_parse_integer(FALSE, <<49>>),
                        fields |-> JsonFields(<<>>)])))
LineNoValue ==
  DocLine(<<>>, 1, 1, None,
          <<[key |-> FieldA, value |-> JsonObject([t |-> JsonString("text")])]>>)

NdjsonLines ==
  { LineX1, LineX2Observe, LineX2Event, LineX3, LineY1, LineBlank,
    LineTooLarge, LineGarbage, LineNull, LineNoFields, LineBadMode,
    LineBadBool, LineBigText, LineStringId, LineNoValue }

\* the files: the empty file, every file of one line, the files of two
\* lines whose first line applies or is blank, and files of three lines
\* whose second line is blank or fails
NdjsonFiles ==
  {<<>>} \cup {<<l>> : l \in NdjsonLines}
    \cup {<<l1, l2>> : l1 \in {LineX1, LineX2Observe, LineBlank}, l2 \in NdjsonLines}
    \cup {<<LineX1, l, LineX2Observe>> :
            l \in {LineBlank, LineY1, LineGarbage, LineBigText, LineTooLarge}}

\* argv[4]: absent, a mode, or a word that is none
DefaultModes == {None, Some("observe"), Some("always")}

CmdIngestNdjson(lines, def) ==
  /\ Cardinality(db.facts) < MaxFacts
  /\ Apply("ingest_ndjson", [lines |-> lines, def |-> def],
           run_ingest_ndjson(db, lines, def))

NextNdjson ==
  \E lines \in NdjsonFiles, def \in DefaultModes : CmdIngestNdjson(lines, def)

SpecNdjson == Init /\ [][NextNdjson]_vars

(***************************************************************************)
(* Properties of ingest_ndjson: the command against the ingest commands    *)
(* that say what its lines say, issued one after the other.                *)
(***************************************************************************)

\* the line is white space only
IsBlank(line) == \A i \in 1..Len(line.text) : line.text[i].b \in {9, 10, 11, 12, 13, 32}

\* the line is an object with an integer record_id, an integer ts_ms, a mode
\* that is a string if there is one, and fields whose members have a type
\* and, but for null, a value
WellFormedLine(line) ==
  /\ line.doc # None /\ line.doc[1].is = "object"
  /\ {"record_id", "ts_ms", "fields"} \subseteq DOMAIN line.doc[1].m
  /\ line.doc[1].m.record_id.is = "number_unsigned"
  /\ line.doc[1].m.ts_ms.is = "number_unsigned"
  /\ "mode" \in DOMAIN line.doc[1].m => line.doc[1].m.mode.is = "string"
  /\ line.doc[1].m.fields.is = "object"
  /\ \A i \in 1..Len(line.doc[1].m.fields.items) :
       LET j == line.doc[1].m.fields.items[i].value
       IN /\ j.is = "object" /\ "t" \in DOMAIN j.m /\ j.m.t.is = "string"
          /\ j.m.t.s # "null" => "v" \in DOMAIN j.m

\* the tokens of the ingest command that names the members of fields
TokensOf(items) ==
  [i \in 1..Len(items) |->
     One(Token(items[i].key, items[i].value.m.t.s,
               IF "v" \in DOMAIN items[i].value.m
               THEN text_form(items[i].value.m.v) ELSE <<>>))]

\* what the line does to the database d as a command of its own: nothing
\* when it is blank, what the ingest command of its record, time, mode (the
\* default def when it names none) and fields does when that succeeds, and
\* a failure that leaves d otherwise
AsCommand(d, line, def) ==
  IF Size(line.text) > MaxLineBytes THEN [ok |-> FALSE, db |-> d]
  ELSE IF IsBlank(line) THEN [ok |-> TRUE, db |-> d]
  ELSE IF ~WellFormedLine(line) THEN [ok |-> FALSE, db |-> d]
  ELSE LET j == line.doc[1].m
           r == run_ingest(d, DecimalValue(j.record_id.text),
                           DecimalValue(j.ts_ms.text),
                           IF "mode" \in DOMAIN j THEN j.mode.s ELSE def,
                           TokensOf(j.fields.items))
       IN IF r.ok THEN [ok |-> TRUE, db |-> r.db] ELSE [ok |-> FALSE, db |-> d]

RECURSIVE LineByLine(_, _, _, _)
\* the lines from line i on as commands of their own, up to the first that
\* fails: the database left, and the number k of the line that failed
LineByLine(d, lines, def, i) ==
  IF i > Len(lines) THEN [ok |-> TRUE, db |-> d, k |-> Len(lines)]
  ELSE IF ~AsCommand(d, lines[i], def).ok THEN [ok |-> FALSE, db |-> d, k |-> i]
  ELSE LineByLine(AsCommand(d, lines[i], def).db, lines, def, i + 1)

\* C32: an ingest_ndjson command whose default mode is a mode leaves the
\* database that its lines leave when each non-empty line is issued as an
\* ingest command of its own, in the order of the file, in the mode the line
\* names or else the default of the command; it fails exactly if one of
\* these fails, at the first line k that does, and then the database holds
\* what the lines before k left: line k and the lines after it leave nothing.
C32_NdjsonLineByLine ==
  [][(last'.cmd = "ingest_ndjson" /\ last'.args.def # Some("always"))
       => LET r == LineByLine(init_schema(db).db, last'.args.lines,
                              IF last'.args.def = None THEN "event"
                              ELSE last'.args.def[1], 1)
          IN /\ last'.ok = r.ok
             /\ last'.ret = r.k
             /\ db' = r.db]_vars

\* a file of three lines has failed at its second line, a duplicate of the
\* first or a text over the size limit: the fact of the first line is
\* there, that of the third is not, and nothing of the second is
C32_Witness ==
  /\ last.cmd = "ingest_ndjson" /\ ~last.ok /\ last.ret = 2
  /\ Len(last.args.lines) = 3
  /\ last.err \in {"Duplicate", "ValueTooLarge"}
  /\ \E f \in db.facts : f.record_id = 1 /\ f.ts = 1
  /\ \A f \in db.facts : f.ts # 2 /\ f.record_id # 2
  /\ \A r \in db.records : r.record_id # 2

====
